---------------------------- MODULE Spec2Model ----------------------------
(***************************************************************************)
(* DJZ-Speak: the robotic-effects pipeline of src/src/audio_processor.py   *)
(* (AudioProcessor) and its caller TTSEngine.apply_robotic_effects in      *)
(* src/src/tts_engine.py.                                                  *)
(*                                                                         *)
(* A PCM buffer (pydub AudioSegment) is a record                           *)
(*   [samples, frame_rate, channels, sample_width]                         *)
(* with samples the interleaved signed integers of get_array_of_samples(). *)
(* Floating point is modelled in fixed point: every scale is named and the *)
(* rounding it introduces is stated where it is used.                      *)
(***************************************************************************)
EXTENDS Integers, Sequences, FiniteSets, TLC

VARIABLES
    PYDUB_AVAILABLE,   \* audio_processor.py:19-24, set at import
    SCIPY_AVAILABLE,   \* audio_processor.py:26-30, set at import
    effects_params,    \* AudioProcessor.effects_params (line 41)
    pc,                \* position inside one run of apply_robotic_effects
    via,               \* who called: "processor" (direct) or "engine" (TTSEngine)
    audio_data,        \* the argument of the run
    audio,             \* the local variable `audio` of apply_robotic_effects
    log,               \* the stage calls made in this run, in call order
    result,            \* what AudioProcessor.apply_robotic_effects returned
    engine_result,     \* what TTSEngine.apply_robotic_effects returned
    ret,               \* the last direct call of _enhance_harmonics
    config,            \* ConfigManager.config (config_manager.py:27)
    call,              \* the last direct call of a method outside a run
    espeak_method,     \* TTSEngine.espeak_method (tts_engine.py:54)
    synthesis_stats,   \* TTSEngine.synthesis_stats (tts_engine.py:44)
    synth,             \* the call of TTSEngine.synthesize in progress
    main,              \* the position of main() in src/main.py
    voice_presets,     \* VoiceManager.voice_presets (voice_manager.py:19)
    current_voice,     \* VoiceManager.current_voice (voice_manager.py:20)
    current_parameters, \* VoiceManager.current_parameters (voice_manager.py:21)
    engine_current,    \* TTSEngine.current_speed, current_pitch,
                       \* current_amplitude, current_gap (tts_engine.py:38-41)
    batch              \* the call of TTSEngine.batch_synthesize in progress

\* The state of the objects around the effects pipeline.
outside == <<config, call, espeak_method, synthesis_stats, synth, main,
             voice_presets, current_voice, current_parameters, engine_current,
             batch>>

vars == <<PYDUB_AVAILABLE, SCIPY_AVAILABLE, effects_params, pc, via, audio_data,
          audio, log, result, engine_result, ret, config, call, espeak_method,
          synthesis_stats, synth, main, voice_presets, current_voice,
          current_parameters,
          engine_current, batch>>

\* ------------------------------------------------------------------ bounds

\* Longest channel handed to _enhance_harmonics in a direct call.
MaxChanLen == 2

\* ------------------------------------------------------------- arithmetic

\* Python None, as a record so that it compares with buffers and arguments.
None == [none |-> TRUE]

Abs(n) == IF n < 0 THEN -n ELSE n

\* Python int(x) / numpy astype(int): round toward zero. d > 0.
TruncDiv(n, d) == IF n >= 0 THEN n \div d ELSE -((-n) \div d)

Pow2(n) == 2 ^ n

\* Range of a signed sample of w bytes.
MinVal(w) == -Pow2(8 * w - 1)
MaxVal(w) == Pow2(8 * w - 1) - 1

Clamp(v, lo, hi) == IF v < lo THEN lo ELSE IF v > hi THEN hi ELSE v

RECURSIVE SeqMax(_)
SeqMax(s) ==
    IF Len(s) = 1 THEN s[1]
    ELSE LET m == SeqMax(Tail(s)) IN IF s[1] > m THEN s[1] ELSE m

\* The largest absolute sample value of a non-empty array.
Peak(samples) == SeqMax([i \in 1..Len(samples) |-> Abs(samples[i])])

\* samples of channel j (0-based) of an interleaved sequence with c channels
Channel(samples, c, j) ==
    [i \in 1..(Len(samples) \div c) |-> samples[(i - 1) * c + j + 1]]

\* ----------------------------------------------- _enhance_harmonics (218)

\* harmonic_enhancement is held in tenths: 12 is the factor 1.2.
FactorDen == 10

\* Resolution of the fixed-point tanh: tanh values are held in 1/TanhScale.
TanhScale == 10000

\* np.abs on a fixed-width integer array: the minimum value has no positive
\* counterpart and wraps to itself (line 223).
NpAbs(v, w) == IF v = MinVal(w) THEN v ELSE Abs(v)

\* tanh(X / TanhScale) for 0 <= X < 6 * TanhScale, in 1/TanhScale: Lambert's
\* continued fraction on the half argument, then the double-angle formula.
\* The error is below 3/TanhScale.
TanhFix(X) ==
    LET S  == TanhScale
        Y  == X \div 2
        Y2 == (Y * Y) \div S
        t8 == 17 * S
        t7 == 15 * S + (Y2 * S) \div t8
        t6 == 13 * S + (Y2 * S) \div t7
        t5 == 11 * S + (Y2 * S) \div t6
        t4 == 9 * S + (Y2 * S) \div t5
        t3 == 7 * S + (Y2 * S) \div t4
        t2 == 5 * S + (Y2 * S) \div t3
        t1 == 3 * S + (Y2 * S) \div t2
        t0 == S + (Y2 * S) \div t1
        T  == (Y * S) \div t0
    IN  (2 * T * S) \div (S + (T * T) \div S)

\* Mutant of EnhanceSample: the rescale by 0.8 of line 231 is left out.
EnhanceSample_noatten(s, max_val, factor) ==
    LET T == IF Abs(s) * factor >= 6 * max_val * FactorDen
             THEN TanhScale
             ELSE TanhFix((((Abs(s) * TanhScale) \div max_val) * factor)
                              \div FactorDen)
        y == (T * max_val) \div TanhScale
    IN  IF s >= 0 THEN y ELSE -y

\* One sample through lines 225-233 for max_val > 0:
\*   normalized = s / max_val; enhanced = tanh(normalized * factor);
\*   enhanced * max_val * 0.8; astype(samples.dtype) rounds toward zero.
\* From an argument of 6 on, tanh is 1 at the resolution of TanhScale.
\* |tanh| <= 1 and max_val <= MaxVal keep the product inside the sample
\* range, so the cast never sees an unrepresentable value.  The result is
\* that of the float64 computation to within 3 * max_val / TanhScale + 1.
EnhanceSample(s, max_val, factor) ==
    LET T == IF Abs(s) * factor >= 6 * max_val * FactorDen
             THEN TanhScale
             ELSE TanhFix((((Abs(s) * TanhScale) \div max_val) * factor)
                              \div FactorDen)
        y == (T * max_val * 4) \div (5 * TanhScale)
    IN  IF s >= 0 THEN y ELSE -y

\* max_val = np.max(np.abs(samples)) (line 223), samples not empty.
MaxAbs(samples, w) ==
    SeqMax([i \in 1..Len(samples) |-> NpAbs(samples[i], w)])

\* Mutant of enhance_harmonics: a linear gain in place of the normalised
\* soft clipping, so that the cast to int(8w) wraps around.
enhance_harmonics_linear(samples, factor, w) ==
    [i \in 1..Len(samples) |->
        ((TruncDiv(samples[i] * factor, FactorDen) - MinVal(w))
            % Pow2(8 * w)) + MinVal(w)]

\* AudioProcessor._enhance_harmonics(samples, factor) on an array of dtype
\* int(8w).  np.max of an empty array raises ValueError, which line 237
\* catches: the samples come back unchanged.
enhance_harmonics(samples, factor, w) ==
    IF Len(samples) = 0 THEN samples
    ELSE LET max_val == MaxAbs(samples, w)
         IN  IF max_val > 0
             THEN [i \in 1..Len(samples) |->
                      EnhanceSample(samples[i], max_val, factor)]
             ELSE samples

\* ------------------------------------------------------------ PCM buffers

\* AudioSegment.frame_count()
FrameCount(b) == Len(b.samples) \div b.channels

\* Python 3 round(n / d): to nearest, ties to even.
RoundHalfEven(n, d) ==
    LET q == n \div d
        r == n % d
    IN  IF 2 * r < d THEN q
        ELSE IF 2 * r > d THEN q + 1
        ELSE IF q % 2 = 0 THEN q ELSE q + 1

\* len(segment): the duration in whole milliseconds.  `if segment:` tests it.
LenMs(b) == RoundHalfEven(1000 * FrameCount(b), b.frame_rate)

\* AudioSegment._spawn(data): the same format around new sample data.
Spawn(b, samples) == [b EXCEPT !.samples = samples]

Interleave(chs, c, n) ==
    [k \in 1..(n * c) |-> chs[((k - 1) % c) + 1][((k - 1) \div c) + 1]]

\* ------------------------------- pydub high_pass_filter / low_pass_filter
\* called at lines 177 and 181.  Both are one-pole filters run over each
\* channel.  alpha and the running value last_val are floats in pydub; here
\* alpha is held in 1/AlphaScale and last_val in 1/LastScale, and 2*pi is
\* taken as 44/7.  The samples agree with the float computation to within
\* one percent of full scale.

AlphaScale == 1000
LastScale == 16

\* low pass: alpha = dt / (RC + dt), RC = 1 / (2 pi cutoff), dt = 1 / rate
AlphaLow(cutoff, rate) ==
    (44 * cutoff * AlphaScale) \div (7 * rate + 44 * cutoff)

\* high pass: alpha = RC / (RC + dt)
AlphaHigh(cutoff, rate) ==
    (7 * rate * AlphaScale) \div (7 * rate + 44 * cutoff)

RECURSIVE LowPassFrom(_, _, _, _)
LowPassFrom(xs, i, last, alpha) ==
    IF i > Len(xs) THEN <<>>
    ELSE LET nl == last + TruncDiv(alpha * (xs[i] * LastScale - last),
                                   AlphaScale)
         IN  <<TruncDiv(nl, LastScale)>> \o LowPassFrom(xs, i + 1, nl, alpha)

\* last_val = last_val + alpha * (x[i] - last_val); out[i] = int(last_val)
LowPassMono(xs, alpha) ==
    IF Len(xs) = 0 THEN xs
    ELSE <<xs[1]>> \o LowPassFrom(xs, 2, xs[1] * LastScale, alpha)

RECURSIVE HighPassFrom(_, _, _, _, _)
HighPassFrom(xs, i, last, alpha, w) ==
    IF i > Len(xs) THEN <<>>
    ELSE LET nl == TruncDiv(alpha * (last + (xs[i] - xs[i - 1]) * LastScale),
                            AlphaScale)
         IN  <<Clamp(TruncDiv(nl, LastScale), MinVal(w), MaxVal(w))>>
                 \o HighPassFrom(xs, i + 1, nl, alpha, w)

\* last_val = alpha * (last_val + x[i] - x[i-1]);
\* out[i] = int(min(max(last_val, minval), maxval))
HighPassMono(xs, alpha, w) ==
    IF Len(xs) = 0 THEN xs
    ELSE <<xs[1]>> \o HighPassFrom(xs, 2, xs[1] * LastScale, alpha, w)

low_pass_filter(b, cutoff) ==
    LET alpha == AlphaLow(cutoff, b.frame_rate)
        c     == b.channels
        chs   == [j \in 1..c |->
                    LowPassMono(Channel(b.samples, c, j - 1), alpha)]
    IN  Spawn(b, Interleave(chs, c, FrameCount(b)))

high_pass_filter(b, cutoff) ==
    LET alpha == AlphaHigh(cutoff, b.frame_rate)
        c     == b.channels
        chs   == [j \in 1..c |->
                    HighPassMono(Channel(b.samples, c, j - 1), alpha,
                                 b.sample_width)]
    IN  Spawn(b, Interleave(chs, c, FrameCount(b)))

\* Both filters read original[i] for i < channels before their loop: an
\* empty segment raises IndexError.  low_pass_filter divides by the cutoff:
\* a cutoff of 0 raises ZeroDivisionError.  (high_pass_filter is only called
\* with a cutoff > 0.)
HighPassRaises(b, cutoff) == Len(b.samples) = 0
LowPassRaises(b, cutoff) == cutoff = 0 \/ Len(b.samples) = 0

\* --------------------------------------- _apply_frequency_filter (168-187)

\* The corner from which on the low pass is left out (line 180).
LowPassOff == 20000

\* What one stage call leaves behind: the buffer it was given, the buffer it
\* returned, whether it ran to its end, and for the filter stage what became
\* of each filtering step ("skipped", "applied", "raised", "not_reached").
StageCall(stage, inp, out, ok, hp, lp) ==
    [stage |-> stage, inp |-> inp, out |-> out, ok |-> ok, hp |-> hp, lp |-> lp]

\* Mutant of apply_frequency_filter: the low pass is left out from half the
\* frame rate on instead of from LowPassOff on.
apply_frequency_filter_nyquist(a, params, hpFault, lpFault) ==
    LET low_cutoff  == params.frequency_filter.low_cutoff
        high_cutoff == params.frequency_filter.high_cutoff
        hpDo    == low_cutoff > 0
        hpFails == hpDo /\ (hpFault \/ HighPassRaises(a, low_cutoff))
        a1      == IF hpDo /\ ~hpFails THEN high_pass_filter(a, low_cutoff) ELSE a
        lpDo    == 2 * high_cutoff < a.frame_rate
        lpFails == lpDo /\ (lpFault \/ LowPassRaises(a1, high_cutoff))
        hp      == IF ~hpDo THEN "skipped"
                   ELSE IF hpFails THEN "raised" ELSE "applied"
    IN  IF hpFails
        THEN StageCall("filter", a, a, FALSE, hp, "not_reached")
        ELSE IF lpFails
        THEN StageCall("filter", a, a1, FALSE, hp, "raised")
        ELSE IF lpDo
        THEN StageCall("filter", a, low_pass_filter(a1, high_cutoff), TRUE,
                       hp, "applied")
        ELSE StageCall("filter", a, a1, TRUE, hp, "skipped")

\* Mutant of apply_frequency_filter: `high_cutoff <= 20000` at line 180.
apply_frequency_filter_inclusive(a, params, hpFault, lpFault) ==
    LET low_cutoff  == params.frequency_filter.low_cutoff
        high_cutoff == params.frequency_filter.high_cutoff
        hpDo    == low_cutoff > 0
        hpFails == hpDo /\ (hpFault \/ HighPassRaises(a, low_cutoff))
        a1      == IF hpDo /\ ~hpFails THEN high_pass_filter(a, low_cutoff) ELSE a
        lpDo    == high_cutoff <= LowPassOff
        lpFails == lpDo /\ (lpFault \/ LowPassRaises(a1, high_cutoff))
        hp      == IF ~hpDo THEN "skipped"
                   ELSE IF hpFails THEN "raised" ELSE "applied"
    IN  IF hpFails
        THEN StageCall("filter", a, a, FALSE, hp, "not_reached")
        ELSE IF lpFails
        THEN StageCall("filter", a, a1, FALSE, hp, "raised")
        ELSE IF lpDo
        THEN StageCall("filter", a, low_pass_filter(a1, high_cutoff), TRUE,
                       hp, "applied")
        ELSE StageCall("filter", a, a1, TRUE, hp, "skipped")

\* hpFault / lpFault: the library call raises for a reason outside the model
\* (the except clause at line 185 catches every Exception).  The local
\* `audio` is rebound at line 177, and line 187 returns that local.
apply_frequency_filter(a, params, hpFault, lpFault) ==
    LET low_cutoff  == params.frequency_filter.low_cutoff
        high_cutoff == params.frequency_filter.high_cutoff
        hpDo    == low_cutoff > 0
        hpFails == hpDo /\ (hpFault \/ HighPassRaises(a, low_cutoff))
        a1      == IF hpDo /\ ~hpFails THEN high_pass_filter(a, low_cutoff) ELSE a
        lpDo    == high_cutoff < LowPassOff
        lpFails == lpDo /\ (lpFault \/ LowPassRaises(a1, high_cutoff))
        hp      == IF ~hpDo THEN "skipped"
                   ELSE IF hpFails THEN "raised" ELSE "applied"
    IN  IF hpFails
        THEN StageCall("filter", a, a, FALSE, hp, "not_reached")
        ELSE IF lpFails
        THEN StageCall("filter", a, a1, FALSE, hp, "raised")
        ELSE IF lpDo
        THEN StageCall("filter", a, low_pass_filter(a1, high_cutoff), TRUE,
                       hp, "applied")
        ELSE StageCall("filter", a, a1, TRUE, hp, "skipped")

\* ------------------------------------ _apply_harmonic_enhancement (189-216)

\* Mutant of apply_harmonic_enhancement: a stereo buffer is enhanced as one
\* array, so both channels are normalised by the peak of the whole buffer.
apply_harmonic_enhancement_joint(a, factor, scipy, fault) ==
    IF fault THEN StageCall("harmonic", a, a, FALSE, "n/a", "n/a")
    ELSE IF ~scipy THEN StageCall("harmonic", a, a, FALSE, "n/a", "n/a")
    ELSE StageCall("harmonic", a,
                   Spawn(a, enhance_harmonics(a.samples, factor,
                                              a.sample_width)),
                   TRUE, "n/a", "n/a")

\* fault: a call of the body raises (line 214 catches every Exception).
\* Without scipy the stage returns its input (line 192).
apply_harmonic_enhancement(a, factor, scipy, fault) ==
    IF fault THEN StageCall("harmonic", a, a, FALSE, "n/a", "n/a")
    ELSE IF ~scipy THEN StageCall("harmonic", a, a, FALSE, "n/a", "n/a")
    ELSE LET chs == [j \in 1..2 |->
                       enhance_harmonics(Channel(a.samples, 2, j - 1), factor,
                                         a.sample_width)]
             out == IF a.channels = 2
                    THEN Spawn(a, Interleave(chs, 2, FrameCount(a)))
                    ELSE Spawn(a, enhance_harmonics(a.samples, factor,
                                                    a.sample_width))
         IN  StageCall("harmonic", a, out, TRUE, "n/a", "n/a")

\* ------------------------------------ _apply_mechanical_artifacts (241-258)

\* AudioSegment.set_sample_width: audioop.lin2lin keeps the high bytes when
\* narrowing and shifts left when widening; the same width returns self.
set_sample_width(b, w) ==
    IF w = b.sample_width THEN b
    ELSE [b EXCEPT
            !.sample_width = w,
            !.samples = [i \in 1..Len(b.samples) |->
                IF w < b.sample_width
                THEN b.samples[i] \div Pow2(8 * (b.sample_width - w))
                ELSE b.samples[i] * Pow2(8 * (w - b.sample_width))]]

\* `segment - 20`: apply_gain(-20) is audioop.mul by 10 ** (-20 / 20) = 0.1,
\* which rounds toward minus infinity and clamps.
GainMinus20(b) ==
    Spawn(b, [i \in 1..Len(b.samples) |->
                Clamp(b.samples[i] \div 10, MinVal(b.sample_width),
                      MaxVal(b.sample_width))])

\* segment[0:]: the slice ends at int(len(segment) * frame_rate / 1000)
\* frames; frames past it are dropped and missing ones are filled with
\* silence (AudioSegment.__getitem__).
SliceFromStart(b) ==
    LET want == (LenMs(b) * b.frame_rate) \div 1000
        n    == want * b.channels
    IN  Spawn(b, [i \in 1..n |->
                    IF i <= Len(b.samples) THEN b.samples[i] ELSE 0])

\* Mutant of overlay: the sum is stored in the sample width without the
\* saturation of audioop.add, so it wraps around.
overlay_wrap(b, seg) ==
    LET seg1 == SliceFromStart(b).samples
        n2   == IF Len(seg.samples) >= Len(seg1) THEN Len(seg1)
                ELSE Len(seg.samples)
    IN  Spawn(b, [i \in 1..Len(seg1) |->
                    IF i <= n2
                    THEN ((seg1[i] + seg.samples[i] - MinVal(b.sample_width))
                             % Pow2(8 * b.sample_width))
                         + MinVal(b.sample_width)
                    ELSE seg1[i]])

\* AudioSegment.overlay(seg) at position 0, played once: audioop.add over
\* the common length (it clamps to the sample range), then the rest of the
\* sliced first segment.
overlay(b, seg) ==
    LET seg1 == SliceFromStart(b).samples
        n2   == IF Len(seg.samples) >= Len(seg1) THEN Len(seg1)
                ELSE Len(seg.samples)
    IN  Spawn(b, [i \in 1..Len(seg1) |->
                    IF i <= n2
                    THEN Clamp(seg1[i] + seg.samples[i],
                               MinVal(b.sample_width), MaxVal(b.sample_width))
                    ELSE seg1[i]])

\* fault: a library call of the body raises (line 256 catches it).
apply_mechanical_artifacts(a, fault) ==
    IF fault THEN StageCall("artifacts", a, a, FALSE, "n/a", "n/a")
    ELSE LET temp_audio == set_sample_width(set_sample_width(a, 1),
                                            a.sample_width)
             mixed == overlay(a, GainMinus20(temp_audio))
         IN  StageCall("artifacts", a, mixed, TRUE, "n/a", "n/a")

\* ------------------------------------------------------------------ inputs

SampleWidths == {1, 2}
FrameRates == {8000, 22050}
FrameCounts == {0, 5, 8}

\* Two-sample patterns a buffer repeats: silence, and swings that include
\* the minimum and the maximum value of the width.
Patterns(w) == {<<0, 0>>, <<100, MinVal(w)>>, <<MaxVal(w), -3>>}

Tile(pat, n) == [i \in 1..n |-> pat[((i - 1) % Len(pat)) + 1]]

Buffers ==
    UNION {{[samples |-> Tile(pat, n * c), frame_rate |-> r, channels |-> c,
             sample_width |-> w] :
                pat \in Patterns(w), n \in FrameCounts, c \in {1, 2},
                r \in FrameRates} : w \in SampleWidths}

\* The argument of apply_robotic_effects: an AudioSegment, the bytes of a
\* WAV file, bytes that are no WAV file, or a value of another type.
Segment(b) == [kind |-> "segment", buf |-> b]
Wav(b) == [kind |-> "wav", buf |-> b]
Junk == [kind |-> "junk", buf |-> None]
Other == [kind |-> "other", buf |-> None]

ProcessorArgs == {Segment(b) : b \in Buffers} \cup {Junk, Other}
EngineArgs == {Wav(b) : b \in Buffers} \cup {Junk}

\* effects_params as get_effects_params() returns it, the .get() defaults of
\* lines 150-173 resolved.  harmonic_enhancement is in tenths.
FilterParams ==
    {[enable |-> TRUE, low_cutoff |-> lo, high_cutoff |-> hi] :
        lo \in {0, 300}, hi \in {0, 3000, 15000, 20000, 24000}}
    \cup {[enable |-> FALSE, low_cutoff |-> 300, high_cutoff |-> 3000]}

EffectsParams ==
    {[frequency_filter |-> ff, harmonic_enhancement |-> he,
      mechanical_artifacts |-> ma] :
        ff \in FilterParams, he \in {10, 15}, ma \in BOOLEAN}

\* ConfigManager._get_fallback_config()['effects'] (config_manager.py:149)
FallbackEffects ==
    [frequency_filter |-> [enable |-> TRUE, low_cutoff |-> 300,
                           high_cutoff |-> 3000],
     harmonic_enhancement |-> 12,
     mechanical_artifacts |-> TRUE]

\* ------------------------------------- the objects around the pipeline

\* ConfigManager._get_fallback_config()['synthesis'] (config_manager.py:142)
FallbackSynthesis ==
    [speed |-> 140, pitch |-> 35, amplitude |-> 100, gap |-> 8,
     voice |-> "classic_robot"]

\* The sections of ConfigManager.config that the model follows.  The
\* processor's effects_params is the dict object config['effects']
\* (audio_processor.py:41, config_manager.py:212).
ConfigWith(effects) == [synthesis |-> FallbackSynthesis, effects |-> effects]

\* VoiceManager._create_fallback_presets (voice_manager.py:65-85);
\* harmonic_enhancement is in tenths.
FallbackPresets ==
    [id \in {"classic_robot"} |->
        [name |-> "Classic Robot",
         description |-> "Standard computer robot voice",
         espeak_voice |-> "en", speed |-> 140, pitch |-> 35,
         amplitude |-> 100, gap |-> 8, variant |-> "m3",
         effects |-> [frequency_filter |-> TRUE, harmonic_enhancement |-> 11,
                      mechanical_artifacts |-> TRUE],
         _source |-> "fallback"]]

\* dict.copy() followed by pop('_source', None) (voice_manager.py:102-105)
WithoutSource(preset) ==
    [k \in (DOMAIN preset) \ {"_source"} |-> preset[k]]

\* TTSEngine.synthesis_stats as __init__ and reset_statistics leave it
\* (tts_engine.py:44-48, 364-371); times are in whole seconds.
ZeroStats == [total_syntheses |-> 0, total_time |-> 0, average_rtf |-> 0]

\* An empty dict.
EmptyDict == [k \in {} |-> TRUE]

\* VoiceManager.__init__ (voice_manager.py:15-28) when no presets file is
\* found: the fallback preset is loaded and is the current voice.
VoiceAtRest ==
    /\ voice_presets = FallbackPresets
    /\ current_voice = "classic_robot"
    /\ current_parameters = WithoutSource(FallbackPresets["classic_robot"])

\* TTSEngine.__init__ (tts_engine.py:38-41): the engine's own parameters
\* are read from the 'synthesis' section of the configuration.
EngineCurrent(synthesis) ==
    [speed |-> synthesis.speed, pitch |-> synthesis.pitch,
     amplitude |-> synthesis.amplitude, gap |-> synthesis.gap]

\* The objects around the pipeline as construction leaves them, with
\* nothing called on them.
OutsideAtRest ==
    /\ engine_current = EngineCurrent(config.synthesis)
    /\ batch = None
    /\ call = None
    /\ espeak_method = "subprocess"
    /\ synthesis_stats = ZeroStats
    /\ synth = None
    /\ main = None
    /\ VoiceAtRest

\* ---------------------------------------- apply_robotic_effects (133-166)

AtRest ==
    /\ pc = "idle"
    /\ via = "nobody"
    /\ audio_data = None
    /\ audio = None
    /\ log = <<>>
    /\ result = None
    /\ engine_result = None

Init ==
    /\ PYDUB_AVAILABLE \in BOOLEAN
    /\ SCIPY_AVAILABLE \in BOOLEAN
    /\ effects_params \in EffectsParams
    /\ AtRest
    /\ ret = None
    /\ config = ConfigWith(effects_params)
    /\ OutsideAtRest

\* Lines 135-147: the entry of a run.  Without pydub the run returns None;
\* bytes are decoded by AudioSegment.from_wav, which raises on bytes that
\* are no WAV file (caught at line 164: None); another type returns None.
Start(v, d) ==
    /\ pc = "idle"
    /\ via' = v
    /\ audio_data' = d
    /\ log' = <<>>
    /\ engine_result' = None
    /\ IF PYDUB_AVAILABLE /\ d.kind \in {"segment", "wav"}
       THEN /\ audio' = d.buf
            /\ result' = None
            /\ pc' = "filter"
       ELSE /\ audio' = None
            /\ result' = None
            /\ pc' = "returned"
    /\ UNCHANGED <<PYDUB_AVAILABLE, SCIPY_AVAILABLE, effects_params, ret>>
    /\ UNCHANGED outside

\* Lines 149-151.
FilterStep ==
    /\ pc = "filter"
    /\ \E hpFault \in BOOLEAN, lpFault \in BOOLEAN :
          IF effects_params.frequency_filter.enable
          THEN LET c == apply_frequency_filter(audio, effects_params,
                                               hpFault, lpFault)
               IN  /\ audio' = c.out
                   /\ log' = Append(log, c)
          ELSE UNCHANGED <<audio, log>>
    /\ pc' = "harmonic"
    /\ UNCHANGED <<PYDUB_AVAILABLE, SCIPY_AVAILABLE, effects_params, via,
                   audio_data, result, engine_result, ret>>
    /\ UNCHANGED outside

\* Mutant of HarmonicStep: the stage is given the argument of the run
\* instead of the buffer the filter stage returned.
HarmonicStep_fromArgument ==
    /\ pc = "harmonic"
    /\ \E fault \in BOOLEAN :
          LET enhancement == effects_params.harmonic_enhancement IN
          IF enhancement # FactorDen
          THEN LET c == apply_harmonic_enhancement(audio_data.buf, enhancement,
                                                   SCIPY_AVAILABLE, fault)
               IN  /\ audio' = c.out
                   /\ log' = Append(log, c)
          ELSE UNCHANGED <<audio, log>>
    /\ pc' = "artifacts"
    /\ UNCHANGED <<PYDUB_AVAILABLE, SCIPY_AVAILABLE, effects_params, via,
                   audio_data, result, engine_result, ret>>
    /\ UNCHANGED outside

\* Mutant of HarmonicStep: the enhanced samples are written into the
\* buffer of the caller instead of into a copy.
HarmonicStep_inplace ==
    /\ pc = "harmonic"
    /\ \E fault \in BOOLEAN :
          LET enhancement == effects_params.harmonic_enhancement IN
          IF enhancement # FactorDen
          THEN LET c == apply_harmonic_enhancement(audio, enhancement,
                                                   SCIPY_AVAILABLE, fault)
               IN  /\ audio' = c.out
                   /\ log' = Append(log, c)
                   /\ audio_data' = [audio_data EXCEPT !.buf = c.out]
          ELSE UNCHANGED <<audio, log, audio_data>>
    /\ pc' = "artifacts"
    /\ UNCHANGED <<PYDUB_AVAILABLE, SCIPY_AVAILABLE, effects_params, via,
                   result, engine_result, ret>>
    /\ UNCHANGED outside

\* Lines 153-156.
HarmonicStep ==
    /\ pc = "harmonic"
    /\ \E fault \in BOOLEAN :
          LET enhancement == effects_params.harmonic_enhancement IN
          IF enhancement # FactorDen
          THEN LET c == apply_harmonic_enhancement(audio, enhancement,
                                                   SCIPY_AVAILABLE, fault)
               IN  /\ audio' = c.out
                   /\ log' = Append(log, c)
          ELSE UNCHANGED <<audio, log>>
    /\ pc' = "artifacts"
    /\ UNCHANGED <<PYDUB_AVAILABLE, SCIPY_AVAILABLE, effects_params, via,
                   audio_data, result, engine_result, ret>>
    /\ UNCHANGED outside

\* Mutant of ArtifactStep: the switch of line 159 is not tested.
ArtifactStep_always ==
    /\ pc = "artifacts"
    /\ \E fault \in BOOLEAN :
          LET c == apply_mechanical_artifacts(audio, fault)
          IN  /\ audio' = c.out
              /\ log' = Append(log, c)
              /\ result' = c.out
    /\ pc' = "returned"
    /\ UNCHANGED <<PYDUB_AVAILABLE, SCIPY_AVAILABLE, effects_params, via,
                   audio_data, engine_result, ret>>
    /\ UNCHANGED outside

\* Lines 158-162: the last stage and the return of the local `audio`.
ArtifactStep ==
    /\ pc = "artifacts"
    /\ \E fault \in BOOLEAN :
          IF effects_params.mechanical_artifacts
          THEN LET c == apply_mechanical_artifacts(audio, fault)
               IN  /\ audio' = c.out
                   /\ log' = Append(log, c)
                   /\ result' = c.out
          ELSE /\ UNCHANGED <<audio, log>>
               /\ result' = audio
    /\ pc' = "returned"
    /\ UNCHANGED <<PYDUB_AVAILABLE, SCIPY_AVAILABLE, effects_params, via,
                   audio_data, engine_result, ret>>
    /\ UNCHANGED outside

\* TTSEngine.apply_robotic_effects (tts_engine.py:252-260): a truthy segment
\* (one that is not None and lasts at least a millisecond) is exported as
\* WAV bytes; otherwise the caller gets its own bytes back.
EngineReturn ==
    /\ pc = "returned"
    /\ via = "engine"
    /\ engine_result' = IF result # None /\ LenMs(result) > 0
                        THEN Wav(result)
                        ELSE audio_data
    /\ pc' = "engine_returned"
    /\ UNCHANGED <<PYDUB_AVAILABLE, SCIPY_AVAILABLE, effects_params, via,
                   audio_data, audio, log, result, ret>>
    /\ UNCHANGED outside

\* The caller has taken the returned value: the processor is at rest again.
Done ==
    /\ \/ pc = "returned" /\ via = "processor"
       \/ pc = "engine_returned"
    /\ pc' = "idle"
    /\ via' = "nobody"
    /\ audio_data' = None
    /\ audio' = None
    /\ log' = <<>>
    /\ result' = None
    /\ engine_result' = None
    /\ UNCHANGED <<PYDUB_AVAILABLE, SCIPY_AVAILABLE, effects_params, ret>>
    /\ UNCHANGED outside

Next ==
    \/ \E d \in ProcessorArgs : Start("processor", d)
    \/ \E d \in EngineArgs : Start("engine", d)
    \/ FilterStep
    \/ HarmonicStep
    \/ ArtifactStep
    \/ EngineReturn
    \/ Done

Spec == Init /\ [][Next]_vars

\* --------------------------------- direct calls of _enhance_harmonics

\* Sample values a channel is drawn from: zero, small, mid-scale, and both
\* ends of the range of the width.
SampleVals(w) ==
    IF w = 1 THEN {-128, -100, -3, 0, 1, 50, 100, 127}
    ELSE {-32768, -20000, -3, 0, 1, 50, 20000, 32767}

ChannelArrays(w) == UNION {[1..n -> SampleVals(w)] : n \in 0..MaxChanLen}

\* Factors in tenths: 0.5, 1.0, 1.2 (the fallback configuration), 1.5, 2.0.
Factors == {5, 10, 12, 15, 20}

InitEnhance ==
    /\ PYDUB_AVAILABLE = TRUE
    /\ SCIPY_AVAILABLE = TRUE
    /\ effects_params = FallbackEffects
    /\ AtRest
    /\ ret = None
    /\ config = ConfigWith(effects_params)
    /\ OutsideAtRest

\* self._enhance_harmonics(samples, factor) with samples of dtype int(8w).
CallEnhance(samples, factor, w) ==
    /\ ret = None
    /\ ret' = [samples |-> samples, factor |-> factor, w |-> w,
               out |-> enhance_harmonics(samples, factor, w)]
    /\ UNCHANGED <<PYDUB_AVAILABLE, SCIPY_AVAILABLE, effects_params, pc, via,
                   audio_data, audio, log, result, engine_result>>
    /\ UNCHANGED outside

\* The caller has taken the returned array.
ReturnEnhance ==
    /\ ret # None
    /\ ret' = None
    /\ UNCHANGED <<PYDUB_AVAILABLE, SCIPY_AVAILABLE, effects_params, pc, via,
                   audio_data, audio, log, result, engine_result>>
    /\ UNCHANGED outside

NextEnhance ==
    \/ \E w \in SampleWidths : \E samples \in ChannelArrays(w) :
          \E factor \in Factors : CallEnhance(samples, factor, w)
    \/ ReturnEnhance

SpecEnhance == InitEnhance /\ [][NextEnhance]_vars

\* ------------------------- direct calls of _apply_harmonic_enhancement

\* Sample values of the channels of a stereo buffer: both ends of the range
\* of the width, zero and a small value.
StereoVals(w) == {MinVal(w), 0, 100, MaxVal(w)}

\* Frame counts of the stereo buffers of these calls.
StereoFrameCounts == {1, 2}

StereoChannels(w, n) == [1..n -> StereoVals(w)]

\* A channel that holds one value throughout.
SteadyChannels(w, n) == {[i \in 1..n |-> v] : v \in StereoVals(w)}

\* The stereo buffer with channel `keep` (0 or 1) holding `kept` and the
\* other channel holding `other`.
StereoBuffer(kept, other, keep, w) ==
    [samples |-> Interleave(IF keep = 0 THEN <<kept, other>>
                            ELSE <<other, kept>>, 2, Len(kept)),
     frame_rate |-> 22050, channels |-> 2, sample_width |-> w]

InitStereo ==
    /\ PYDUB_AVAILABLE = TRUE
    /\ SCIPY_AVAILABLE = TRUE
    /\ effects_params = FallbackEffects
    /\ AtRest
    /\ ret = None
    /\ config = ConfigWith(effects_params)
    /\ OutsideAtRest

\* Two calls of self._apply_harmonic_enhancement(audio, factor), on two
\* stereo buffers that hold the same samples in channel `keep`.
CallHarmonicPair(kept, other1, other2, keep, factor, w) ==
    /\ call = None
    /\ LET a == StereoBuffer(kept, other1, keep, w)
           b == StereoBuffer(kept, other2, keep, w)
       IN  call' = [op |-> "harmonic_pair", keep |-> keep, factor |-> factor,
                    a |-> a, b |-> b,
                    outa |-> apply_harmonic_enhancement(
                                 a, factor, SCIPY_AVAILABLE, FALSE).out,
                    outb |-> apply_harmonic_enhancement(
                                 b, factor, SCIPY_AVAILABLE, FALSE).out]
    /\ UNCHANGED <<PYDUB_AVAILABLE, SCIPY_AVAILABLE, effects_params, pc, via,
                   audio_data, audio, log, result, engine_result, ret>>
    /\ UNCHANGED <<config, espeak_method, synthesis_stats, synth, main,
                   voice_presets, current_voice, current_parameters>>
    /\ UNCHANGED <<engine_current, batch>>

\* The caller has taken what the call returned.
ReturnCall ==
    /\ call # None
    /\ call' = None
    /\ UNCHANGED <<PYDUB_AVAILABLE, SCIPY_AVAILABLE, effects_params, pc, via,
                   audio_data, audio, log, result, engine_result, ret>>
    /\ UNCHANGED <<config, espeak_method, synthesis_stats, synth, main,
                   voice_presets, current_voice, current_parameters>>
    /\ UNCHANGED <<engine_current, batch>>

NextStereo ==
    \/ \E w \in SampleWidths, n \in StereoFrameCounts :
          \E kept \in StereoChannels(w, n) :
             \E other1 \in SteadyChannels(w, n),
                other2 \in SteadyChannels(w, n) :
                \E keep \in {0, 1}, factor \in {12, 20} :
                   CallHarmonicPair(kept, other1, other2, keep, factor, w)
    \/ ReturnCall

SpecStereo == InitStereo /\ [][NextStereo]_vars

\* ------------------------------------------------ normalize_audio (260-276)

\* A square split as 16 * hi + lo, so that the sum of the squares of a few
\* 16-bit samples stays within 32-bit integers.
SqHi(x) == (x * x) \div 16
SqLo(x) == (x * x) % 16

RECURSIVE SumHi(_)
SumHi(xs) == IF Len(xs) = 0 THEN 0 ELSE SqHi(xs[1]) + SumHi(Tail(xs))

RECURSIVE SumLo(_)
SumLo(xs) == IF Len(xs) = 0 THEN 0 ELSE SqLo(xs[1]) + SumLo(Tail(xs))

\* r * r * Len(xs) <= the sum of the squares of xs
SquareFits(r, xs) ==
    LET n  == Len(xs)
        h1 == SqHi(r) * n + (SqLo(r) * n) \div 16
        l1 == (SqLo(r) * n) % 16
        h2 == SumHi(xs) + SumLo(xs) \div 16
        l2 == SumLo(xs) % 16
    IN  h1 < h2 \/ (h1 = h2 /\ l1 <= l2)

\* The largest r in lo..(hi - 1) with SquareFits(r, xs), by bisection.
RECURSIVE RmsBetween(_, _, _)
RmsBetween(xs, lo, hi) ==
    IF hi - lo <= 1 THEN lo
    ELSE LET mid == (lo + hi) \div 2
         IN  IF SquareFits(mid, xs) THEN RmsBetween(xs, mid, hi)
             ELSE RmsBetween(xs, lo, mid)

\* AudioSegment.max_possible_amplitude: 2 ** bits / 2
MaxAmp(w) == Pow2(8 * w - 1)

\* AudioSegment.rms = audioop.rms: the integer part of the square root of
\* the mean square over all samples of all channels; 0 for no samples.
Rms(b) ==
    IF Len(b.samples) = 0 THEN 0
    ELSE RmsBetween(b.samples, 0, MaxAmp(b.sample_width) + 1)

\* AudioSegment.max = audioop.max: the largest absolute sample value.
MaxOf(b) == IF Len(b.samples) = 0 THEN 0 ELSE Peak(b.samples)

\* audioop.mul by the factor num / den as a double computes it: the product
\* is rounded toward minus infinity.  The factor is 10 ** (gain / 20) with
\* gain = target - 20 * log(rms / max_possible_amplitude, 10), which floating
\* point returns a rounding error below (err = -1), at (err = 0) or above
\* (err = 1) the exact ratio; the error shows only where the exact product
\* is a whole number.
MulSample(s, num, den, err) ==
    LET q == (s * num) \div den
    IN  IF s = 0 \/ (s * num) % den # 0 \/ err = 0 THEN q
        ELSE IF (s > 0) = (err < 0) THEN q - 1 ELSE q

\* AudioProcessor.normalize_audio(audio, target_dBFS).  target is the ratio
\* num / den = 10 ** (target_dBFS / 20) of full scale.  audio.dBFS is the
\* RMS level: 20 * log10(rms / max_possible_amplitude), minus infinity when
\* rms is 0.  Then the gain is plus infinity: audioop.mul drives every
\* non-zero sample to the end of the range and leaves zero at zero.
normalize_audio(b, target, err) ==
    IF Len(b.samples) = 0 THEN b
    ELSE IF Rms(b) = 0
    THEN Spawn(b, [i \in 1..Len(b.samples) |->
            IF b.samples[i] > 0 THEN MaxVal(b.sample_width)
            ELSE IF b.samples[i] < 0 THEN MinVal(b.sample_width)
            ELSE 0])
    ELSE Spawn(b, [i \in 1..Len(b.samples) |->
            Clamp(MulSample(b.samples[i], target.num * MaxAmp(b.sample_width),
                            target.den * Rms(b), err),
                  MinVal(b.sample_width), MaxVal(b.sample_width))])

\* Targets: -20 dBFS (the default, a tenth of full scale) and 0 dBFS.
Targets == {[dBFS |-> -20, num |-> 1, den |-> 10],
            [dBFS |-> 0, num |-> 1, den |-> 1]}

NormVals(w) ==
    IF w = 1 THEN {-128, -100, -10, 0, 1, 10, 100, 127}
    ELSE {-32768, -20000, -1000, 0, 1, 1000, 20000, 32767}

\* Sample counts of the buffers handed to normalize_audio.
NormLens == {0, 3}

NormBuffers ==
    UNION {{[samples |-> xs, frame_rate |-> 22050, channels |-> 1,
             sample_width |-> w] :
                xs \in UNION {[1..n -> NormVals(w)] : n \in NormLens}} :
           w \in SampleWidths}

InitNormalize ==
    /\ PYDUB_AVAILABLE = TRUE
    /\ SCIPY_AVAILABLE = TRUE
    /\ effects_params = FallbackEffects
    /\ AtRest
    /\ ret = None
    /\ config = ConfigWith(effects_params)
    /\ OutsideAtRest

\* normalized = self.normalize_audio(audio, target_dBFS)
CallNormalize(b, target, err) ==
    /\ call = None
    /\ call' = [op |-> "normalize", audio |-> b, target |-> target,
                out |-> normalize_audio(b, target, err), again |-> None]
    /\ UNCHANGED <<PYDUB_AVAILABLE, SCIPY_AVAILABLE, effects_params, pc, via,
                   audio_data, audio, log, result, engine_result, ret>>
    /\ UNCHANGED <<config, espeak_method, synthesis_stats, synth, main,
                   voice_presets, current_voice, current_parameters>>
    /\ UNCHANGED <<engine_current, batch>>

\* self.normalize_audio(normalized, target_dBFS): the result of the call
\* before is normalised once more to the same target.
CallNormalizeAgain(err) ==
    /\ call # None
    /\ call.op = "normalize"
    /\ call.again = None
    /\ call' = [call EXCEPT
                   !.again = normalize_audio(call.out, call.target, err)]
    /\ UNCHANGED <<PYDUB_AVAILABLE, SCIPY_AVAILABLE, effects_params, pc, via,
                   audio_data, audio, log, result, engine_result, ret>>
    /\ UNCHANGED <<config, espeak_method, synthesis_stats, synth, main,
                   voice_presets, current_voice, current_parameters>>
    /\ UNCHANGED <<engine_current, batch>>

NextNormalize ==
    \/ \E b \in NormBuffers, target \in Targets, err \in {-1, 0, 1} :
          CallNormalize(b, target, err)
    \/ \E err \in {-1, 0, 1} : CallNormalizeAgain(err)
    \/ ReturnCall

SpecNormalize == InitNormalize /\ [][NextNormalize]_vars

\* ------------------------------------------------- convert_format (365-389)

\* The bytes of an encoding of buffer b in the container fmt.
Encoded(b, fmt) == [kind |-> fmt, buf |-> b]

\* str.lower() on the format names of the model.
Lower(fmt) ==
    IF fmt = "WAV" THEN "wav" ELSE IF fmt = "Mp3" THEN "mp3" ELSE fmt

InputFormats == {"wav", "WAV", "mp3", "Mp3", "ogg", ""}
OutputFormats == {"wav", "WAV", "mp3", "ogg", "xyz"}

\* Formats the encoder program (ffmpeg) writes, by their exact names.
EncoderFormats == {"mp3", "ogg", "flac"}

\* What one call of convert_format leaves behind: the value returned, and
\* how far the body got.
Conversion(out, supported, decoded, encoded) ==
    [out |-> out, supported |-> supported, decoded |-> decoded,
     encoded |-> encoded]

\* AudioSegment.from_wav / from_mp3 on the bytes: from_wav reads WAV bytes
\* without help; from_mp3 runs the decoder program and yields 16-bit
\* samples.  Anything else raises.
Decodes(audio_bytes, fmt, ffmpeg) ==
    \/ fmt = "wav" /\ audio_bytes.kind = "wav"
    \/ fmt = "mp3" /\ audio_bytes.kind = "mp3" /\ ffmpeg

Decode(audio_bytes, fmt) ==
    IF fmt = "wav" THEN audio_bytes.buf
    ELSE set_sample_width(audio_bytes.buf, 2)

\* AudioSegment.export(buffer, format=output_format): "wav" is written
\* without help; every other name is handed to the encoder program, and a
\* missing program or a name it does not know raises.
Encodes(output_format, ffmpeg) ==
    output_format = "wav" \/ (ffmpeg /\ output_format \in EncoderFormats)

\* Mutant of convert_format: like the DSP stages, a failure hands back the
\* bytes that were given.
convert_format_failopen(audio_bytes, input_format, output_format, pydub, ffmpeg) ==
    LET fmt == Lower(input_format) IN
    IF ~pydub THEN Conversion(audio_bytes, FALSE, FALSE, FALSE)
    ELSE IF fmt \notin {"wav", "mp3"}
    THEN Conversion(audio_bytes, FALSE, FALSE, FALSE)
    ELSE IF ~Decodes(audio_bytes, fmt, ffmpeg)
    THEN Conversion(audio_bytes, TRUE, FALSE, FALSE)
    ELSE IF ~Encodes(output_format, ffmpeg)
    THEN Conversion(audio_bytes, TRUE, TRUE, FALSE)
    ELSE Conversion(Encoded(Decode(audio_bytes, fmt), output_format),
                    TRUE, TRUE, TRUE)

\* AudioProcessor.convert_format(audio_data, input_format, output_format).
\* Lines 367-369: no pydub, None.  Lines 373-379: the source format, lower
\* case, is wav or mp3, else None.  Line 387: every exception of decoding
\* and encoding, None.
convert_format(audio_bytes, input_format, output_format, pydub, ffmpeg) ==
    LET fmt == Lower(input_format) IN
    IF ~pydub THEN Conversion(None, FALSE, FALSE, FALSE)
    ELSE IF fmt \notin {"wav", "mp3"}
    THEN Conversion(None, FALSE, FALSE, FALSE)
    ELSE IF ~Decodes(audio_bytes, fmt, ffmpeg)
    THEN Conversion(None, TRUE, FALSE, FALSE)
    ELSE IF ~Encodes(output_format, ffmpeg)
    THEN Conversion(None, TRUE, TRUE, FALSE)
    ELSE Conversion(Encoded(Decode(audio_bytes, fmt), output_format),
                    TRUE, TRUE, TRUE)

\* Buffers whose encodings are handed to convert_format and play_audio.
BytesBuffers ==
    {b \in Buffers :
        FrameCount(b) = 5 /\ b.channels = 1 /\ b.frame_rate = 22050}

AudioBytes ==
    {Encoded(b, fmt) : b \in BytesBuffers, fmt \in {"wav", "mp3"}}
        \cup {Junk}

InitConvert ==
    /\ PYDUB_AVAILABLE \in BOOLEAN
    /\ SCIPY_AVAILABLE = TRUE
    /\ effects_params = FallbackEffects
    /\ AtRest
    /\ ret = None
    /\ config = ConfigWith(effects_params)
    /\ OutsideAtRest

\* self.convert_format(audio_data, input_format, output_format); ffmpeg
\* tells whether the decoder / encoder program can be run.
CallConvert(audio_bytes, input_format, output_format, ffmpeg) ==
    /\ call = None
    /\ LET c == convert_format(audio_bytes, input_format, output_format,
                               PYDUB_AVAILABLE, ffmpeg)
       IN  call' = [op |-> "convert", audio_data |-> audio_bytes,
                    input_format |-> input_format,
                    output_format |-> output_format, ffmpeg |-> ffmpeg,
                    out |-> c.out, supported |-> c.supported,
                    decoded |-> c.decoded, encoded |-> c.encoded]
    /\ UNCHANGED <<PYDUB_AVAILABLE, SCIPY_AVAILABLE, effects_params, pc, via,
                   audio_data, audio, log, result, engine_result, ret>>
    /\ UNCHANGED <<config, espeak_method, synthesis_stats, synth, main,
                   voice_presets, current_voice, current_parameters>>
    /\ UNCHANGED <<engine_current, batch>>

NextConvert ==
    \/ \E audio_bytes \in AudioBytes, input_format \in InputFormats,
          output_format \in OutputFormats, ffmpeg \in BOOLEAN :
             CallConvert(audio_bytes, input_format, output_format, ffmpeg)
    \/ ReturnCall

SpecConvert == InitConvert /\ [][NextConvert]_vars

\* ------------------------------------------ ConfigManager (config_manager.py)

\* dict.get(key, default)
Get(d, key, default) == IF key \in DOMAIN d THEN d[key] ELSE default

\* The keys of the configuration whose values are dicts.
DictKeys == {"synthesis", "effects", "frequency_filter"}

\* ConfigManager._deep_merge (lines 180-186), with the merged dict as its
\* value: a key of override replaces the key of base unless both values
\* are dicts, which are merged in turn.
RECURSIVE deep_merge(_, _)
deep_merge(base, override) ==
    [k \in (DOMAIN base) \cup (DOMAIN override) |->
        IF k \notin DOMAIN override THEN base[k]
        ELSE IF k \in DOMAIN base /\ k \in DictKeys
        THEN deep_merge(base[k], override[k])
        ELSE override[k]]

\* max(lo, min(hi, d[key])) for a key that is there (lines 101-111)
ClampKey(d, key, lo, hi) ==
    IF key \in DOMAIN d THEN [d EXCEPT ![key] = Clamp(@, lo, hi)] ELSE d

\* ConfigManager._validate_config (lines 96-131) on the sections the model
\* follows: the four synthesis parameters are clamped; the audio and
\* performance sections are checked as well; no line reads 'effects'.
validate_config(c) ==
    [c EXCEPT !.synthesis =
        ClampKey(ClampKey(ClampKey(ClampKey(@, "speed", 80, 300),
                                   "pitch", 0, 99),
                          "amplitude", 0, 200),
                 "gap", 0, 100)]

\* ConfigManager._get_fallback_config() (lines 133-178), sections
\* 'synthesis' and 'effects'.
FallbackConfig ==
    [synthesis |-> FallbackSynthesis,
     effects |-> [enable_by_default |-> FALSE,
                  frequency_filter |-> [low_cutoff |-> 300,
                                        high_cutoff |-> 3000],
                  harmonic_enhancement |-> 12,
                  mechanical_artifacts |-> TRUE]]

\* The effects parameters as the stages read them: the dict config['effects']
\* (config_manager.py:212) through the .get() defaults of
\* audio_processor.py:149-174.  harmonic_enhancement is in tenths.
EffectsView(e) ==
    LET ff == Get(e, "frequency_filter", [enable |-> TRUE])
    IN  [frequency_filter |->
            [enable |-> Get(ff, "enable", TRUE),
             low_cutoff |-> Get(ff, "low_cutoff", 300),
             high_cutoff |-> Get(ff, "high_cutoff", 3000)],
         harmonic_enhancement |-> Get(e, "harmonic_enhancement", FactorDen),
         mechanical_artifacts |-> Get(e, "mechanical_artifacts", TRUE)]

\* What a user configuration file or an imported file may hold: cutoffs
\* (negative, equal, crossed, in order), an enhancement factor (0 is 0.0) and
\* a speed inside and outside 80..300.
ConfigFiles ==
    {[effects |-> [frequency_filter |->
                      [low_cutoff |-> lo, high_cutoff |-> hi]]] :
        lo \in {-100, 300, 3000}, hi \in {300, 3000}}
    \cup {[effects |-> [harmonic_enhancement |-> he]] : he \in {0, 10, 15}}
    \cup {[synthesis |-> [speed |-> sp]] : sp \in {50, 140, 400}}

\* ConfigManager.__init__ (lines 17-36): the default file is missing (the
\* fallback configuration), a user file may be merged over it, and the
\* result is validated.  AudioProcessor.__init__ then takes config['effects'].
InitConfig ==
    /\ PYDUB_AVAILABLE = TRUE
    /\ SCIPY_AVAILABLE = TRUE
    /\ \/ config = validate_config(FallbackConfig)
       \/ \E user_config \in ConfigFiles :
             config = validate_config(deep_merge(FallbackConfig, user_config))
    /\ effects_params = EffectsView(config.effects)
    /\ AtRest
    /\ ret = None
    /\ OutsideAtRest

\* ConfigManager.import_config (lines 306-327) between two runs.  The merge
\* is in place, so the processor's effects_params, the same dict object as
\* config['effects'], shows the imported values.
ImportConfig(imported_config) ==
    /\ pc = "idle"
    /\ config' = validate_config(deep_merge(config, imported_config))
    /\ effects_params' = EffectsView(config'.effects)
    /\ UNCHANGED <<PYDUB_AVAILABLE, SCIPY_AVAILABLE, pc, via, audio_data,
                   audio, log, result, engine_result, ret>>
    /\ UNCHANGED <<call, espeak_method, synthesis_stats, synth, main,
                   voice_presets, current_voice, current_parameters>>
    /\ UNCHANGED <<engine_current, batch>>

\* ConfigManager.set('effects', key, value) (lines 196-202) between two
\* runs: the value is stored as it is given.
SetEffect(key, value) ==
    /\ pc = "idle"
    /\ config' = [config EXCEPT !.effects =
                     [k \in (DOMAIN @) \cup {key} |->
                         IF k = key THEN value ELSE @[k]]]
    /\ effects_params' = EffectsView(config'.effects)
    /\ UNCHANGED <<PYDUB_AVAILABLE, SCIPY_AVAILABLE, pc, via, audio_data,
                   audio, log, result, engine_result, ret>>
    /\ UNCHANGED <<call, espeak_method, synthesis_stats, synth, main,
                   voice_presets, current_voice, current_parameters>>
    /\ UNCHANGED <<engine_current, batch>>

NextConfig ==
    \/ \E imported_config \in ConfigFiles : ImportConfig(imported_config)
    \/ \E he \in {0, 12} : SetEffect("harmonic_enhancement", he)
    \/ \E b \in BytesBuffers : Start("processor", Segment(b))
    \/ FilterStep
    \/ HarmonicStep
    \/ ArtifactStep
    \/ Done

SpecConfig == InitConfig /\ [][NextConfig]_vars

\* ------------------------------------------------ TTSEngine.synthesize
\* (tts_engine.py:108-218)

\* Texts handed to synthesize: the text, whether `not text or not
\* text.strip()` holds for it (line 110), and len(normalize_text(text))
\* (utils.py:90-106: a full stop is appended when the text ends in none of
\* . ! ?).
Texts ==
    { [text |-> "",            blank |-> TRUE,  length |-> 0],
      [text |-> "   ",         blank |-> TRUE,  length |-> 0],
      [text |-> "!",           blank |-> FALSE, length |-> 1],
      [text |-> "Hi",          blank |-> FALSE, length |-> 3],
      [text |-> "Hello world", blank |-> FALSE, length |-> 12] }

\* subprocess.run(..., timeout=30, ...) (tts_engine.py:187), in seconds.
SynthesisTimeout == 30

\* Seconds the eSpeak-NG engine needs for one request.
EngineNeeds == {2, SynthesisTimeout, SynthesisTimeout + 1}

\* What the engine writes when it finishes with success: a WAV file, or
\* bytes that are none (an empty standard output).
EngineOutputs == {Wav(b) : b \in BytesBuffers} \cup {Junk}

\* VoiceManager.get_espeak_parameters (voice_manager.py:156-168)
get_espeak_parameters(parameters) ==
    IF DOMAIN parameters = {} THEN EmptyDict
    ELSE [voice     |-> Get(parameters, "espeak_voice", "en"),
          speed     |-> Get(parameters, "speed", 140),
          pitch     |-> Get(parameters, "pitch", 35),
          amplitude |-> Get(parameters, "amplitude", 100),
          gap       |-> Get(parameters, "gap", 8),
          variant   |-> Get(parameters, "variant", "m3")]

\* One call of the engine by _synthesize_python (142-164) or
\* _synthesize_subprocess (166-201): whether the 30-second bound cut it
\* short, the seconds it took and the value handed back to synthesize.
\* need is what the engine needs, status its end ("ok", or "failed": a
\* non-zero exit status, a program that cannot be started, an exception of
\* the library), output what it writes.
\*   subprocess: subprocess.run kills the child after timeout=30 seconds
\*     and raises TimeoutExpired (None, line 192-194); check=True turns a
\*     non-zero status into CalledProcessError (None, 195-197); any other
\*     exception None (198-200); else result.stdout.
\*   python: espeak_ng.synth_wav(text) is called with no bound on its time
\*     (line 158); its result is returned whenever it arrives; an exception
\*     gives None (162-164).
EngineCall(method, need, status, output) ==
    IF method = "subprocess"
    THEN IF need > SynthesisTimeout
         THEN [timed_out |-> TRUE, elapsed |-> SynthesisTimeout,
               audio_data |-> None]
         ELSE [timed_out |-> FALSE, elapsed |-> need,
               audio_data |-> IF status = "ok" THEN output ELSE None]
    ELSE [timed_out |-> FALSE, elapsed |-> need,
          audio_data |-> IF status = "ok" THEN output ELSE None]

\* average_rtf is kept in thousandths.
RtfScale == 1000

\* TTSEngine._update_stats(synthesis_time, text_length) (203-218), with
\* speed the engine's current_speed.
\* estimated_audio_duration = text_length / (speed / 60 * 5)
\*                          = 12 * text_length / speed seconds, and the rtf
\* divides by max(estimated_audio_duration, 0.1).
update_stats(stats, synthesis_time, text_length, speed) ==
    LET n   == stats.total_syntheses + 1
        rtf == IF 120 * text_length >= speed
               THEN (RtfScale * synthesis_time * speed) \div (12 * text_length)
               ELSE 10 * RtfScale * synthesis_time
    IN  [total_syntheses |-> n,
         total_time      |-> stats.total_time + synthesis_time,
         average_rtf     |-> (stats.average_rtf * (n - 1) + rtf) \div n]

\* Calls of synthesize in one run of the model.
MaxSyntheses == 2

InitEngine ==
    /\ PYDUB_AVAILABLE = TRUE
    /\ SCIPY_AVAILABLE = TRUE
    /\ effects_params = FallbackEffects
    /\ AtRest
    /\ ret = None
    /\ config = ConfigWith(effects_params)
    /\ engine_current = EngineCurrent(config.synthesis)
    /\ batch = None
    /\ call = None
    \* _initialize_espeak (53-75): the python library when it imports, else
    \* the eSpeak-NG program; with neither the constructor raises.
    /\ espeak_method \in {"python", "subprocess"}
    /\ synthesis_stats = ZeroStats
    /\ synth = None
    /\ main = None
    /\ VoiceAtRest

\* engine.synthesize(text), lines 110-121: empty or blank text returns None
\* at once; else the text is normalised and the voice parameters are read.
\* Inside main() the text is the one of the command line.
SynthStart(t) ==
    /\ synth = None
    /\ call = None
    /\ pc = "idle"
    /\ \/ main = None
       \/ main # None /\ main.pc = "synthesize" /\ main.args.text = t
    /\ synthesis_stats.total_syntheses < MaxSyntheses
    /\ synth' = [text |-> t,
                 pc |-> IF t.blank THEN "returned" ELSE "engine",
                 invocations |-> 0, need |-> 0, elapsed |-> 0,
                 timed_out |-> FALSE, audio_data |-> None, result |-> None,
                 voice_params |-> IF t.blank THEN EmptyDict
                                  ELSE get_espeak_parameters(
                                           current_parameters)]
    /\ UNCHANGED <<PYDUB_AVAILABLE, SCIPY_AVAILABLE, effects_params, pc, via,
                   audio_data, audio, log, result, engine_result, ret>>
    /\ UNCHANGED <<config, call, espeak_method, synthesis_stats, main,
                   voice_presets, current_voice, current_parameters>>
    /\ UNCHANGED <<engine_current, batch>>

\* Lines 123-130: the one call of the engine of this synthesize.
EngineRun(need, status, output) ==
    /\ synth # None
    /\ synth.pc = "engine"
    /\ LET c == EngineCall(espeak_method, need, status, output)
       IN  synth' = [synth EXCEPT !.pc = "stats",
                                  !.invocations = @ + 1,
                                  !.need = need,
                                  !.elapsed = c.elapsed,
                                  !.timed_out = c.timed_out,
                                  !.audio_data = c.audio_data]
    /\ UNCHANGED <<PYDUB_AVAILABLE, SCIPY_AVAILABLE, effects_params, pc, via,
                   audio_data, audio, log, result, engine_result, ret>>
    /\ UNCHANGED <<config, call, espeak_method, synthesis_stats, main,
                   voice_presets, current_voice, current_parameters>>
    /\ UNCHANGED <<engine_current, batch>>

\* Lines 132-136: the statistics are updated, whatever the engine handed
\* back, and audio_data is returned.
SynthReturn ==
    /\ synth # None
    /\ synth.pc = "stats"
    /\ synthesis_stats' = update_stats(synthesis_stats, synth.elapsed,
                                       synth.text.length,
                                       engine_current.speed)
    /\ synth' = [synth EXCEPT !.pc = "returned", !.result = synth.audio_data]
    /\ UNCHANGED <<PYDUB_AVAILABLE, SCIPY_AVAILABLE, effects_params, pc, via,
                   audio_data, audio, log, result, engine_result, ret>>
    /\ UNCHANGED <<config, call, espeak_method, main, voice_presets,
                   current_voice, current_parameters>>
    /\ UNCHANGED <<engine_current, batch>>

\* A caller other than main() drops the returned value.
SynthDone ==
    /\ synth # None
    /\ synth.pc = "returned"
    /\ main = None
    /\ synth' = None
    /\ UNCHANGED <<PYDUB_AVAILABLE, SCIPY_AVAILABLE, effects_params, pc, via,
                   audio_data, audio, log, result, engine_result, ret>>
    /\ UNCHANGED <<config, call, espeak_method, synthesis_stats, main,
                   voice_presets, current_voice, current_parameters>>
    /\ UNCHANGED <<engine_current, batch>>

NextEngine ==
    \/ \E t \in Texts : SynthStart(t)
    \/ \E need \in EngineNeeds, status \in {"ok", "failed"},
         output \in EngineOutputs : EngineRun(need, status, output)
    \/ SynthReturn
    \/ SynthDone

SpecEngine == InitEngine /\ [][NextEngine]_vars

\* ------------------------------------------------------- main() (main.py)
\* and AudioProcessor.save_audio / play_audio

\* What a call hands back: a returned boolean, or an exception raised to
\* the caller.
Returned(value) == [raised |-> FALSE, value |-> value]
Raised == [raised |-> TRUE, value |-> FALSE]

\* AudioProcessor.save_audio(audio_data, output_path, format) (75-108).
\* bytes and format.lower() == 'wav': the bytes are written as they are
\* (82-86); bytes and another format: pydub is required (89-91), the bytes
\* are decoded by from_wav and exported (93-95); an AudioSegment is exported
\* (97-100); anything else False (102-104).  Every exception of decoding,
\* encoding and writing False (106-108).  written tells whether the file
\* system takes the file.
save_audio(data, format, pydub, ffmpeg, written) ==
    IF data.kind \in {"wav", "mp3", "junk"}
    THEN IF Lower(format) = "wav" THEN written
         ELSE /\ pydub
              /\ data.kind = "wav"
              /\ Encodes(format, ffmpeg)
              /\ written
    ELSE IF data.kind = "segment"
    THEN pydub /\ Encodes(format, ffmpeg) /\ written
    ELSE FALSE

\* Mutant of play_audio: the player is called outside the try block, so its
\* exception reaches the caller.
play_audio_uncaught(data, pydub, player_ok) ==
    IF ~pydub THEN Returned(FALSE)
    ELSE IF data.kind \in {"mp3", "junk", "other"} THEN Returned(FALSE)
    ELSE IF ~player_ok THEN Raised
    ELSE Returned(TRUE)

\* AudioProcessor.play_audio(audio_data) (110-131).  Without pydub False
\* (112-114); bytes are decoded by from_wav, which raises on bytes that are
\* no WAV file; a value that is neither bytes nor an AudioSegment False
\* (121-123); play(audio) raises when no player can be run or the player
\* fails; every exception False (129-131).
play_audio(data, pydub, player_ok) ==
    IF ~pydub THEN Returned(FALSE)
    ELSE IF data.kind \in {"mp3", "junk", "other"} THEN Returned(FALSE)
    ELSE IF ~player_ok THEN Returned(FALSE)
    ELSE Returned(TRUE)

\* Command lines of main(): the text, --effects, --play / --no-play and
\* --format (main.py:56-71); the voice arguments are the defaults.
MainArgs ==
    [text : {t \in Texts : t.text \in {"   ", "!", "Hello world"}},
     effects : BOOLEAN, play : BOOLEAN, format : {"wav", "mp3"}]

\* What play_audio may be handed by its callers: bytes (WAV or not), an
\* AudioSegment, or None after a synthesis that failed (main.py:104-105).
PlayArgs == AudioBytes \cup {Segment(b) : b \in BytesBuffers} \cup {Other}

InitMain ==
    /\ PYDUB_AVAILABLE \in BOOLEAN
    /\ SCIPY_AVAILABLE = TRUE
    /\ effects_params = FallbackEffects
    /\ AtRest
    /\ ret = None
    /\ config = ConfigWith(effects_params)
    /\ engine_current = EngineCurrent(config.synthesis)
    /\ batch = None
    /\ call = None
    /\ espeak_method \in {"python", "subprocess"}
    /\ synthesis_stats = ZeroStats
    /\ synth = None
    /\ main = None
    /\ VoiceAtRest

\* main.py:191-262: the objects are constructed, the text is read and
\* validated; a text validate_text_input refuses ends the run with
\* sys.exit(1) (258-260).
MainStart(args) ==
    /\ main = None
    /\ call = None
    /\ synth = None
    /\ pc = "idle"
    /\ main' = [pc |-> IF args.text.blank THEN "exited" ELSE "synthesize",
                args |-> args, audio_data |-> Other, saved |-> FALSE,
                played |-> "no",
                outcome |-> IF args.text.blank THEN "exit_1" ELSE "running"]
    /\ UNCHANGED <<PYDUB_AVAILABLE, SCIPY_AVAILABLE, effects_params, pc, via,
                   audio_data, audio, log, result, engine_result, ret>>
    /\ UNCHANGED <<config, call, espeak_method, synthesis_stats, synth,
                   voice_presets, current_voice, current_parameters>>
    /\ UNCHANGED <<engine_current, batch>>

\* Line 265: audio_data = engine.synthesize(text_input); None is kept as a
\* value that is neither bytes nor an AudioSegment.
MainTakeSynth ==
    /\ main # None
    /\ main.pc = "synthesize"
    /\ synth # None
    /\ synth.pc = "returned"
    /\ main' = [main EXCEPT
                  !.audio_data = IF synth.result = None THEN Other
                                 ELSE synth.result,
                  !.pc = IF main.args.effects THEN "effects" ELSE "mkdir"]
    /\ synth' = None
    /\ UNCHANGED <<PYDUB_AVAILABLE, SCIPY_AVAILABLE, effects_params, pc, via,
                   audio_data, audio, log, result, engine_result, ret>>
    /\ UNCHANGED <<config, call, espeak_method, synthesis_stats,
                   voice_presets, current_voice, current_parameters>>
    /\ UNCHANGED <<engine_current, batch>>

\* Lines 268-269: audio_data = engine.apply_robotic_effects(audio_data); the
\* call is entered.
MainEffects ==
    /\ main # None
    /\ main.pc = "effects"
    /\ Start("engine", main.audio_data)

\* Lines 268-269, the assignment of the returned value.
MainTakeEffects ==
    /\ main # None
    /\ main.pc = "effects"
    /\ pc = "engine_returned"
    /\ main' = [main EXCEPT !.audio_data = engine_result, !.pc = "mkdir"]
    /\ pc' = "idle"
    /\ via' = "nobody"
    /\ audio_data' = None
    /\ audio' = None
    /\ log' = <<>>
    /\ result' = None
    /\ engine_result' = None
    /\ UNCHANGED <<PYDUB_AVAILABLE, SCIPY_AVAILABLE, effects_params, ret>>
    /\ UNCHANGED <<config, call, espeak_method, synthesis_stats, synth,
                   voice_presets, current_voice, current_parameters>>
    /\ UNCHANGED <<engine_current, batch>>

\* Lines 271-296: the output directory is made; a PermissionError ends the
\* run with sys.exit(1), another exception by the handler of line 325.
MainMkdir(made) ==
    /\ main # None
    /\ main.pc = "mkdir"
    /\ main' = IF made THEN [main EXCEPT !.pc = "save"]
               ELSE [main EXCEPT !.pc = "exited", !.outcome = "exit_1"]
    /\ UNCHANGED <<PYDUB_AVAILABLE, SCIPY_AVAILABLE, effects_params, pc, via,
                   audio_data, audio, log, result, engine_result, ret>>
    /\ UNCHANGED <<config, call, espeak_method, synthesis_stats, synth,
                   voice_presets, current_voice, current_parameters>>
    /\ UNCHANGED <<engine_current, batch>>

\* Lines 305-315: success = engine.save_audio(audio_data, path, format);
\* a False ends the run with sys.exit(1).
MainSave(ffmpeg, written) ==
    /\ main # None
    /\ main.pc = "save"
    /\ main' = IF save_audio(main.audio_data, main.args.format,
                             PYDUB_AVAILABLE, ffmpeg, written)
               THEN [main EXCEPT !.saved = TRUE, !.pc = "play"]
               ELSE [main EXCEPT !.pc = "exited", !.outcome = "exit_1"]
    /\ UNCHANGED <<PYDUB_AVAILABLE, SCIPY_AVAILABLE, effects_params, pc, via,
                   audio_data, audio, log, result, engine_result, ret>>
    /\ UNCHANGED <<config, call, espeak_method, synthesis_stats, synth,
                   voice_presets, current_voice, current_parameters>>
    /\ UNCHANGED <<engine_current, batch>>

\* Lines 317-318: if args.play: engine.play_audio(audio_data), the returned
\* value dropped; an exception would be caught at line 325 (sys.exit(1)).
MainPlay(player_ok) ==
    /\ main # None
    /\ main.pc = "play"
    /\ LET r == play_audio(main.audio_data, PYDUB_AVAILABLE, player_ok) IN
       main' = IF ~main.args.play THEN [main EXCEPT !.pc = "complete"]
               ELSE IF r.raised
               THEN [main EXCEPT !.played = "raised", !.pc = "exited",
                                 !.outcome = "exit_1"]
               ELSE [main EXCEPT !.played = IF r.value THEN "played"
                                            ELSE "failed",
                                 !.pc = "complete"]
    /\ UNCHANGED <<PYDUB_AVAILABLE, SCIPY_AVAILABLE, effects_params, pc, via,
                   audio_data, audio, log, result, engine_result, ret>>
    /\ UNCHANGED <<config, call, espeak_method, synthesis_stats, synth,
                   voice_presets, current_voice, current_parameters>>
    /\ UNCHANGED <<engine_current, batch>>

\* Line 320: "Synthesis complete!", and main() returns.
MainComplete ==
    /\ main # None
    /\ main.pc = "complete"
    /\ main' = [main EXCEPT !.pc = "exited", !.outcome = "complete"]
    /\ UNCHANGED <<PYDUB_AVAILABLE, SCIPY_AVAILABLE, effects_params, pc, via,
                   audio_data, audio, log, result, engine_result, ret>>
    /\ UNCHANGED <<config, call, espeak_method, synthesis_stats, synth,
                   voice_presets, current_voice, current_parameters>>
    /\ UNCHANGED <<engine_current, batch>>

\* engine.play_audio(audio_data) called by another caller than the main
\* run (interactive_mode, main.py:104-105; the library interface).
CallPlay(data, player_ok) ==
    /\ call = None
    /\ main = None
    /\ call' = [op |-> "play", audio_data |-> data, player_ok |-> player_ok,
                out |-> play_audio(data, PYDUB_AVAILABLE, player_ok)]
    /\ UNCHANGED <<PYDUB_AVAILABLE, SCIPY_AVAILABLE, effects_params, pc, via,
                   audio_data, audio, log, result, engine_result, ret>>
    /\ UNCHANGED <<config, espeak_method, synthesis_stats, synth, main,
                   voice_presets, current_voice, current_parameters>>
    /\ UNCHANGED <<engine_current, batch>>

NextMain ==
    \/ \E args \in MainArgs : MainStart(args)
    \/ main # None /\ \E t \in Texts : SynthStart(t)
    \/ main # None
         /\ \E need \in EngineNeeds, status \in {"ok", "failed"},
              output \in EngineOutputs : EngineRun(need, status, output)
    \/ main # None /\ SynthReturn
    \/ MainTakeSynth
    \/ MainEffects
    \/ main # None /\ FilterStep
    \/ main # None /\ HarmonicStep
    \/ main # None /\ ArtifactStep
    \/ main # None /\ EngineReturn
    \/ MainTakeEffects
    \/ \E made \in BOOLEAN : MainMkdir(made)
    \/ \E ffmpeg \in BOOLEAN, written \in BOOLEAN : MainSave(ffmpeg, written)
    \/ \E player_ok \in BOOLEAN : MainPlay(player_ok)
    \/ MainComplete
    \/ \E data \in PlayArgs, player_ok \in BOOLEAN : CallPlay(data, player_ok)
    \/ ReturnCall

SpecMain == InitMain /\ [][NextMain]_vars

\* ------------------------------------------- VoiceManager (voice_manager.py)

\* self.current_voice = None (line 20), kept as a string no voice id equals.
NoVoice == "<None>"

\* A JSON value that is no object, found where a voice's object is expected.
Text == [str |-> "text"]
IsDict(value) == DOMAIN value # {"str"}

\* d[key] = value on a dict.
With(d, key, value) ==
    [k \in DOMAIN d \cup {key} |-> IF k = key THEN value ELSE d[k]]

\* The 'voices' object of a presets file, in the order of the file, and what
\* a missing or unreadable file is.
NoFile == <<>>
DefaultFiles ==
    { NoFile,
      << <<"classic_robot", [name |-> "Classic Robot", speed |-> 140,
                             pitch |-> 35]>>,
         <<"deep", [name |-> "Deep", speed |-> 120, pitch |-> 10]>> >>,
      << <<"deep", [name |-> "Deep", speed |-> 120, pitch |-> 10]>> >>,
      << <<"deep", [name |-> "Deep", speed |-> 120, pitch |-> 10]>>,
         <<"classic_robot", Text>> >> }
UserFiles ==
    { NoFile,
      << <<"good", [speed |-> 100, pitch |-> 50]>> >>,
      << <<"good", [speed |-> 100, pitch |-> 50]>>,
         <<"bad", Text>>,
         <<"later", [name |-> "Later", speed |-> 90]>> >> }

\* The loop of _load_presets_file (lines 54-56) over the voices from the
\* i-th on: the entry is stored, then '_source' is written into it, which
\* raises on a value that is no dict; the entry stored just before stays.
RECURSIVE load_voices(_, _, _, _)
load_voices(presets, voices, i, source) ==
    IF i > Len(voices) THEN [presets |-> presets, raised |-> FALSE]
    ELSE LET voice_id == voices[i][1]
             voice_config == voices[i][2]
         IN  IF ~IsDict(voice_config)
             THEN [presets |-> With(presets, voice_id, voice_config),
                   raised |-> TRUE]
             ELSE load_voices(With(presets, voice_id,
                                   With(voice_config, "_source", source)),
                              voices, i + 1, source)

\* VoiceManager._load_voice_presets (30-39) with _load_presets_file (41-63):
\* a default file that is missing or fails to load leaves the fallback
\* presets alone (lines 45-47, 60-63); a user file that fails is given up
\* where it failed.
load_voice_presets(default_file, user_file) ==
    LET d == load_voices(EmptyDict, default_file, 1, "default")
        defaults == IF default_file = NoFile \/ d.raised
                    THEN FallbackPresets ELSE d.presets
    IN  load_voices(defaults, user_file, 1, "user").presets

\* What set_voice leaves behind: what it handed back, the current voice and
\* the current parameters.
VoiceCall(out, voice, parameters) ==
    [out |-> out, current_voice |-> voice, current_parameters |-> parameters]

\* VoiceManager.set_voice(voice_id) (95-108).  Lines 97-99: an id that is
\* no key of voice_presets, False.  Line 101 assigns current_voice; line
\* 102 copies the preset, which raises AttributeError on a value that has
\* no copy(); line 105 drops '_source'.
set_voice(presets, voice, parameters, voice_id) ==
    IF voice_id \notin DOMAIN presets
    THEN VoiceCall(Returned(FALSE), voice, parameters)
    ELSE IF ~IsDict(presets[voice_id])
    THEN VoiceCall(Raised, voice_id, parameters)
    ELSE VoiceCall(Returned(TRUE), voice_id, WithoutSource(presets[voice_id]))

\* A value handed to update_parameter, with its Python type.
IntValue(n) == [type |-> "int", v |-> n]
StrValue(str) == [type |-> "str", v |-> str]

\* VoiceManager._validate_parameter (140-154): the rules of the six known
\* parameters (isinstance and range); an unknown parameter is allowed.
validate_parameter(parameter, value) ==
    IF parameter = "speed"
    THEN value.type = "int" /\ 80 <= value.v /\ value.v <= 300
    ELSE IF parameter = "pitch"
    THEN value.type = "int" /\ 0 <= value.v /\ value.v <= 99
    ELSE IF parameter = "amplitude"
    THEN value.type = "int" /\ 0 <= value.v /\ value.v <= 200
    ELSE IF parameter = "gap"
    THEN value.type = "int" /\ 0 <= value.v /\ value.v <= 100
    ELSE IF parameter = "espeak_voice"
    THEN value.type = "str" /\ value.v # ""
    ELSE IF parameter = "variant"
    THEN value.type = "str"
    ELSE TRUE

\* What update_parameter leaves behind: the value returned and the current
\* parameters.
ParameterCall(out, parameters) ==
    [out |-> out, current_parameters |-> parameters]

\* Mutant of update_parameter: the value is stored before it is validated.
update_parameter_unchecked(voice, parameters, parameter, value) ==
    IF voice = NoVoice THEN ParameterCall(Returned(FALSE), parameters)
    ELSE ParameterCall(Returned(validate_parameter(parameter, value)),
                       With(parameters, parameter, value.v))

\* VoiceManager.update_parameter(parameter, value) (127-138).  Lines
\* 129-130: no current voice, False.  Lines 133-134: a value the rules
\* refuse, False.  Line 136: the value is stored under the parameter.
update_parameter(voice, parameters, parameter, value) ==
    IF voice = NoVoice THEN ParameterCall(Returned(FALSE), parameters)
    ELSE IF ~validate_parameter(parameter, value)
    THEN ParameterCall(Returned(FALSE), parameters)
    ELSE ParameterCall(Returned(TRUE),
                       With(parameters, parameter, value.v))

VoiceIds == {"classic_robot", "deep", "good", "bad", "later", "nope"}

\* VoiceManager.__init__ (15-28): the presets are loaded and the voice of
\* the configuration is set; with an unknown one there is no current voice.
InitVoice ==
    /\ PYDUB_AVAILABLE = TRUE
    /\ SCIPY_AVAILABLE = TRUE
    /\ effects_params = FallbackEffects
    /\ AtRest
    /\ ret = None
    /\ config = ConfigWith(effects_params)
    /\ engine_current = EngineCurrent(config.synthesis)
    /\ batch = None
    /\ call = None
    /\ espeak_method = "subprocess"
    /\ synthesis_stats = ZeroStats
    /\ synth = None
    /\ main = None
    /\ \E default_file \in DefaultFiles, user_file \in UserFiles,
         default_voice \in {"classic_robot", "nope"} :
         LET presets == load_voice_presets(default_file, user_file)
             c == set_voice(presets, NoVoice, EmptyDict, default_voice)
         IN  /\ ~c.out.raised
             /\ voice_presets = presets
             /\ current_voice = c.current_voice
             /\ current_parameters = c.current_parameters

\* voice_manager.set_voice(voice_id)
SetVoice(voice_id) ==
    /\ call = None
    /\ LET c == set_voice(voice_presets, current_voice, current_parameters,
                          voice_id)
       IN  /\ current_voice' = c.current_voice
           /\ current_parameters' = c.current_parameters
           /\ call' = [op |-> "set_voice", voice_id |-> voice_id,
                       out |-> c.out, old_voice |-> current_voice,
                       old_parameters |-> current_parameters]
    /\ UNCHANGED <<PYDUB_AVAILABLE, SCIPY_AVAILABLE, effects_params, pc, via,
                   audio_data, audio, log, result, engine_result, ret>>
    /\ UNCHANGED <<config, espeak_method, synthesis_stats, synth, main,
                   voice_presets>>
    /\ UNCHANGED <<engine_current, batch>>

\* voice_manager.update_parameter(parameter, value)
UpdateParameter(parameter, value) ==
    /\ call = None
    /\ LET c == update_parameter(current_voice, current_parameters,
                                 parameter, value)
       IN  /\ current_parameters' = c.current_parameters
           /\ call' = [op |-> "update_parameter", parameter |-> parameter,
                       value |-> value, out |-> c.out,
                       old_presets |-> voice_presets,
                       old_voice |-> current_voice,
                       old_parameters |-> current_parameters]
    /\ UNCHANGED <<PYDUB_AVAILABLE, SCIPY_AVAILABLE, effects_params, pc, via,
                   audio_data, audio, log, result, engine_result, ret>>
    /\ UNCHANGED <<config, espeak_method, synthesis_stats, synth, main,
                   voice_presets, current_voice>>
    /\ UNCHANGED <<engine_current, batch>>

NextVoice ==
    \/ \E voice_id \in VoiceIds : SetVoice(voice_id)
    \/ \E value \in {79, 80, 300} :
          UpdateParameter("speed", IntValue(value))
    \/ ReturnCall

SpecVoice == InitVoice /\ [][NextVoice]_vars

\* ------------------------------------------------------ utils.py: texts

\* Characters of the texts of the model, by the classes of the pattern of
\* line 40: \w (letters of any script, digits, underscore), \s, and the
\* punctuation the pattern lists.
WordChars == {"a", "B", "7", "_", "e-acute"}
Whitespace == {" ", "newline", "tab"}
Punctuation ==
    {".", ",", "!", "?", ";", ":", "'", "quote", "(", ")", "-", "[", "]",
     "{", "}", "@", "#", "$", "%", "^", "&", "*", "+", "=", "<", ">", "/",
     "backslash", "|", "backtick", "~"}
Allowed(ch) == ch \in WordChars \cup Whitespace \cup Punctuation

\* Line 36: the longest text accepted, in characters.
MaxTextLength == 10000

\* A str as runs of one character: <<ch, n>> is ch repeated n times.
RunChars == {"a", "e-acute", " ", "newline", "~", "euro"}
RunCounts == {1, MaxTextLength - 1, MaxTextLength + 1}
Runs == RunChars \X RunCounts
MaxRuns == 3
Strs == UNION {[1..n -> Runs] : n \in 0..MaxRuns}

\* Values handed to validate_text_input: a str, None, an int, bytes.
ValidateArgs ==
    {[kind |-> "str", runs |-> r] : r \in Strs}
        \cup {[kind |-> "none", runs |-> <<>>],
              [kind |-> "int", runs |-> <<>>],
              [kind |-> "bytes", runs |-> << <<"a", 1>> >>]}

RECURSIVE RunLength(_)
RunLength(runs) ==
    IF runs = <<>> THEN 0 ELSE runs[1][2] + RunLength(Tail(runs))

\* str.strip() on runs: the runs of whitespace at both ends are dropped.
StripRuns(runs) ==
    LET solid == {i \in 1..Len(runs) : runs[i][1] \notin Whitespace}
    IN  IF solid = {} THEN <<>>
        ELSE LET first == CHOOSE i \in solid : \A j \in solid : i <= j
                 last  == CHOOSE i \in solid : \A j \in solid : j <= i
             IN  SubSeq(runs, first, last)

\* Mutant of validate_text_input: the length is tested before the text is
\* trimmed.
validate_text_input_untrimmed(text) ==
    IF text.kind # "str" \/ text.runs = <<>> THEN FALSE
    ELSE LET trimmed == StripRuns(text.runs) IN
         IF trimmed = <<>> THEN FALSE
         ELSE IF RunLength(text.runs) > MaxTextLength THEN FALSE
         ELSE \A i \in 1..Len(trimmed) : Allowed(trimmed[i][1])

\* validate_text_input(text) (utils.py:25-43).  Line 27: a falsy value or
\* one that is no str, False.  Lines 31-33: the text is trimmed, and an
\* empty rest is False.  Line 36: more than 10000 characters, False.  Line
\* 40: the whole text must match the character classes.
validate_text_input(text) ==
    IF text.kind # "str" \/ text.runs = <<>> THEN FALSE
    ELSE LET trimmed == StripRuns(text.runs) IN
         IF trimmed = <<>> THEN FALSE
         ELSE IF RunLength(trimmed) > MaxTextLength THEN FALSE
         ELSE \A i \in 1..Len(trimmed) : Allowed(trimmed[i][1])

InitText ==
    /\ PYDUB_AVAILABLE = TRUE
    /\ SCIPY_AVAILABLE = TRUE
    /\ effects_params = FallbackEffects
    /\ AtRest
    /\ ret = None
    /\ config = ConfigWith(effects_params)
    /\ OutsideAtRest

\* validate_text_input(text)
CallValidate(text) ==
    /\ call = None
    /\ call' = [op |-> "validate", text |-> text,
                out |-> validate_text_input(text)]
    /\ UNCHANGED <<PYDUB_AVAILABLE, SCIPY_AVAILABLE, effects_params, pc, via,
                   audio_data, audio, log, result, engine_result, ret>>
    /\ UNCHANGED <<config, espeak_method, synthesis_stats, synth, main,
                   voice_presets, current_voice, current_parameters>>
    /\ UNCHANGED <<engine_current, batch>>


\* Texts handed to normalize_text: sequences of characters.
TextChars == {"a", "B", ".", " ", "newline"}
MaxChars == 5
CharSeqs == UNION {[1..n -> TextChars] : n \in 0..MaxChars}

Uppercase == {"B"}
SentenceEnd == {".", "!", "?"}

\* re.sub(r'\s+', ' ', text) (line 93), from the i-th character on.
RECURSIVE collapse_whitespace(_, _)
collapse_whitespace(text, i) ==
    IF i > Len(text) THEN <<>>
    ELSE IF text[i] \in Whitespace
    THEN IF i < Len(text) /\ text[i + 1] \in Whitespace
         THEN collapse_whitespace(text, i + 1)
         ELSE <<" ">> \o collapse_whitespace(text, i + 1)
    ELSE <<text[i]>> \o collapse_whitespace(text, i + 1)

\* The end of the whitespace that starts at the i-th character.
RECURSIVE SkipWhitespace(_, _)
SkipWhitespace(text, i) ==
    IF i <= Len(text) /\ text[i] \in Whitespace
    THEN SkipWhitespace(text, i + 1) ELSE i

\* re.sub(r'([.!?])\s*([A-Z])', r'\1 \2', text) (line 100), from the i-th
\* character on: a sentence end, any whitespace and a capital letter are
\* replaced by the sentence end, one space and the letter.
RECURSIVE space_sentences(_, _)
space_sentences(text, i) ==
    IF i > Len(text) THEN <<>>
    ELSE LET j == SkipWhitespace(text, i + 1) IN
         IF text[i] \in SentenceEnd /\ j <= Len(text) /\ text[j] \in Uppercase
         THEN <<text[i], " ", text[j]>> \o space_sentences(text, j + 1)
         ELSE <<text[i]>> \o space_sentences(text, i + 1)

\* str.strip() on a sequence of characters.
strip(text) ==
    LET solid == {i \in 1..Len(text) : text[i] \notin Whitespace}
    IN  IF solid = {} THEN <<>>
        ELSE LET first == CHOOSE i \in solid : \A j \in solid : i <= j
                 last  == CHOOSE i \in solid : \A j \in solid : j <= i
             IN  SubSeq(text, first, last)

\* Mutant of normalize_text: the text is trimmed first and the runs of
\* whitespace are left as they are.
normalize_text_uncollapsed(text) ==
    LET t1 == strip(text)
        t2 == space_sentences(t1, 1)
    IN  IF t2 # <<>> /\ t2[Len(t2)] \notin SentenceEnd
        THEN t2 \o <<".">> ELSE t2

\* normalize_text(text) (utils.py:90-106).  Line 93 collapses whitespace;
\* lines 96-97 replace the straight quotes by themselves (and line 97, a
\* triple-quoted literal, a text no input of the model holds); line 100
\* spaces sentence ends; lines 103-104 append a full stop to a text that is
\* not empty and ends in none of . ! ?; line 106 trims.
normalize_text(text) ==
    LET t1 == collapse_whitespace(text, 1)
        t2 == space_sentences(t1, 1)
        t3 == IF t2 # <<>> /\ t2[Len(t2)] \notin SentenceEnd
              THEN t2 \o <<".">> ELSE t2
    IN  strip(t3)

\* normalize_text(text)
CallNormalizeText(text) ==
    /\ call = None
    /\ call' = [op |-> "normalize_text", text |-> text,
                out |-> normalize_text(text)]
    /\ UNCHANGED <<PYDUB_AVAILABLE, SCIPY_AVAILABLE, effects_params, pc, via,
                   audio_data, audio, log, result, engine_result, ret>>
    /\ UNCHANGED <<config, espeak_method, synthesis_stats, synth, main,
                   voice_presets, current_voice, current_parameters>>
    /\ UNCHANGED <<engine_current, batch>>

NextText ==
    \/ \E text \in ValidateArgs : CallValidate(text)
    \/ \E text \in CharSeqs : CallNormalizeText(text)
    \/ ReturnCall

SpecText == InitText /\ [][NextText]_vars

\* ------------------------------- VoiceManager: the table of voice presets

\* del d[key]
Without(d, key) == [k \in (DOMAIN d) \ {key} |-> d[k]]

\* dict.update with the values of typed parameters.
Updated(d, parameters) ==
    [k \in DOMAIN d \cup DOMAIN parameters |->
        IF k \in DOMAIN parameters THEN parameters[k].v ELSE d[k]]

\* bool(voice_id): None and the empty string are falsy.
Truthy(voice_id) == voice_id \notin {NoVoice, ""}

\* What a method of the voice manager leaves behind: what it handed back,
\* the table, the current voice and the current parameters.
StoreCall(out, presets, voice, parameters) ==
    [out |-> out, voice_presets |-> presets, current_voice |-> voice,
     current_parameters |-> parameters]

\* The voice create_custom_voice starts from without a base voice (lines
\* 189-201).
NewVoiceConfig ==
    [espeak_voice |-> "en", speed |-> 140, pitch |-> 35, amplitude |-> 100,
     gap |-> 8, variant |-> "m3",
     effects |-> [frequency_filter |-> TRUE, harmonic_enhancement |-> 11,
                  mechanical_artifacts |-> TRUE]]

\* VoiceManager.create_custom_voice(voice_id, name, base_voice,
\* **parameters) (177-216).  Lines 179-181: an id that exists, False.  Lines
\* 184-186: a truthy base voice that exists is copied without '_source'
\* (copy() raises on a value that is no dict).  Lines 204-207: name,
\* description, the parameters and '_source' = 'custom' are written.  Lines
\* 210-213: a parameter the rules refuse, False.  Line 215 stores the voice.
create_custom_voice(presets, voice, current, voice_id, name, base_voice, parameters) ==
    IF voice_id \in DOMAIN presets
    THEN StoreCall(Returned(FALSE), presets, voice, current)
    ELSE IF /\ Truthy(base_voice)
            /\ base_voice \in DOMAIN presets
            /\ ~IsDict(presets[base_voice])
    THEN StoreCall(Raised, presets, voice, current)
    ELSE LET base == IF Truthy(base_voice) /\ base_voice \in DOMAIN presets
                     THEN WithoutSource(presets[base_voice])
                     ELSE NewVoiceConfig
             named == With(With(base, "name", name), "description",
                           <<"Custom voice: ", name>>)
             voice_config == With(Updated(named, parameters), "_source",
                                  "custom")
         IN  IF \E p \in DOMAIN parameters :
                    ~validate_parameter(p, parameters[p])
             THEN StoreCall(Returned(FALSE), presets, voice, current)
             ELSE StoreCall(Returned(TRUE),
                            With(presets, voice_id, voice_config), voice,
                            current)

\* VoiceManager.clone_voice(source_voice_id, new_voice_id, new_name)
\* (331-350).  The description is written after the name, so it reads the
\* new name (lines 344-345).
clone_voice(presets, voice, current, source_voice_id, new_voice_id, new_name) ==
    IF source_voice_id \notin DOMAIN presets
    THEN StoreCall(Returned(FALSE), presets, voice, current)
    ELSE IF new_voice_id \in DOMAIN presets
    THEN StoreCall(Returned(FALSE), presets, voice, current)
    ELSE IF ~IsDict(presets[source_voice_id])
    THEN StoreCall(Raised, presets, voice, current)
    ELSE LET copied == WithoutSource(presets[source_voice_id])
             named == With(With(copied, "name", new_name), "description",
                           <<"Clone of ", new_name>>)
         IN  StoreCall(Returned(TRUE),
                       With(presets, new_voice_id,
                            With(named, "_source", "custom")),
                       voice, current)

\* Mutant of delete_voice: the source of the preset is not looked at.
delete_voice_any(presets, voice, current, voice_id) ==
    IF voice_id \notin DOMAIN presets
    THEN StoreCall(Returned(FALSE), presets, voice, current)
    ELSE IF ~IsDict(presets[voice_id])
    THEN StoreCall(Raised, presets, voice, current)
    ELSE LET rest == Without(presets, voice_id)
             c == set_voice(rest, voice, current, "classic_robot")
         IN  IF voice # voice_id
             THEN StoreCall(Returned(TRUE), rest, voice, current)
             ELSE StoreCall(IF c.out.raised THEN Raised ELSE Returned(TRUE),
                            rest, c.current_voice, c.current_parameters)

\* VoiceManager.delete_voice(voice_id) (218-235).  Lines 220-221: an unknown
\* id, False.  Lines 223-226: a preset whose '_source' is neither 'custom'
\* nor 'user', False (get() raises on a value that is no dict).  Line 228
\* deletes the preset.  Lines 231-232: when it was the current voice,
\* set_voice('classic_robot') is called and its result is dropped.
delete_voice(presets, voice, current, voice_id) ==
    IF voice_id \notin DOMAIN presets
    THEN StoreCall(Returned(FALSE), presets, voice, current)
    ELSE IF ~IsDict(presets[voice_id])
    THEN StoreCall(Raised, presets, voice, current)
    ELSE IF Get(presets[voice_id], "_source", "") \notin {"custom", "user"}
    THEN StoreCall(Returned(FALSE), presets, voice, current)
    ELSE LET rest == Without(presets, voice_id)
             c == set_voice(rest, voice, current, "classic_robot")
         IN  IF voice # voice_id
             THEN StoreCall(Returned(TRUE), rest, voice, current)
             ELSE StoreCall(IF c.out.raised THEN Raised ELSE Returned(TRUE),
                            rest, c.current_voice, c.current_parameters)

\* VoiceManager.reset_voice_parameters() (352-357): with a truthy current
\* voice the preset of that name is copied without '_source'; the lookup
\* raises KeyError when the table has no such preset, and copy() raises on
\* a value that is no dict.
reset_voice_parameters(presets, voice, current) ==
    IF ~Truthy(voice)
    THEN StoreCall(Returned(TRUE), presets, voice, current)
    ELSE IF voice \notin DOMAIN presets
    THEN StoreCall(Raised, presets, voice, current)
    ELSE IF ~IsDict(presets[voice])
    THEN StoreCall(Raised, presets, voice, current)
    ELSE StoreCall(Returned(TRUE), presets, voice,
                   WithoutSource(presets[voice]))

\* The presets files of the runs below: their 'voices' objects.
StoreDefaultFiles ==
    { NoFile,
      << <<"classic_robot", [name |-> "Classic Robot", speed |-> 140,
                             pitch |-> 35]>>,
         <<"deep", [name |-> "Deep", speed |-> 120, pitch |-> 10]>> >>,
      << <<"deep", [name |-> "Deep", speed |-> 120, pitch |-> 10]>> >> }
StoreUserFiles ==
    { NoFile,
      << <<"classic_robot", [name |-> "My Robot", speed |-> 100,
                             pitch |-> 50]>> >>,
      << <<"", [name |-> "Unnamed", speed |-> 90, pitch |-> 20]>>,
         <<"loud", [name |-> "Loud", speed |-> 500, pitch |-> 120,
                    amplitude |-> 300, gap |-> 200]>> >> }

StoreIds == {"classic_robot", "deep", "", "loud", "mine", "nope"}

\* VoiceManager.__init__ and TTSEngine.__init__ over these files.
InitStore ==
    /\ PYDUB_AVAILABLE = TRUE
    /\ SCIPY_AVAILABLE = TRUE
    /\ effects_params = FallbackEffects
    /\ AtRest
    /\ ret = None
    /\ config = ConfigWith(effects_params)
    /\ engine_current = EngineCurrent(config.synthesis)
    /\ batch = None
    /\ call = None
    /\ espeak_method = "subprocess"
    /\ synthesis_stats = ZeroStats
    /\ synth = None
    /\ main = None
    /\ \E default_file \in StoreDefaultFiles, user_file \in StoreUserFiles :
         LET presets == load_voice_presets(default_file, user_file)
             c == set_voice(presets, NoVoice, EmptyDict, "classic_robot")
         IN  /\ voice_presets = presets
             /\ current_voice = c.current_voice
             /\ current_parameters = c.current_parameters

\* The state a method of the voice manager leaves, and the call on record.
StoreStep(c, record) ==
    /\ voice_presets' = c.voice_presets
    /\ current_voice' = c.current_voice
    /\ current_parameters' = c.current_parameters
    /\ call' = [op |-> record.op, args |-> record, out |-> c.out,
                old_presets |-> voice_presets, old_voice |-> current_voice,
                old_parameters |-> current_parameters]
    /\ UNCHANGED <<PYDUB_AVAILABLE, SCIPY_AVAILABLE, effects_params, pc, via,
                   audio_data, audio, log, result, engine_result, ret>>
    /\ UNCHANGED <<config, espeak_method, synthesis_stats, synth, main>>

\* voice_manager.create_custom_voice(voice_id, name, base_voice, **parameters)
CreateCustomVoice(voice_id, name, base_voice, parameters) ==
    /\ call = None
    /\ StoreStep(create_custom_voice(voice_presets, current_voice,
                                     current_parameters, voice_id, name,
                                     base_voice, parameters),
                 [op |-> "create_custom_voice", voice_id |-> voice_id])
    /\ UNCHANGED <<engine_current, batch>>

\* voice_manager.clone_voice(source_voice_id, new_voice_id, new_name)
CloneVoice(source_voice_id, new_voice_id, new_name) ==
    /\ call = None
    /\ StoreStep(clone_voice(voice_presets, current_voice, current_parameters,
                             source_voice_id, new_voice_id, new_name),
                 [op |-> "clone_voice", voice_id |-> new_voice_id])
    /\ UNCHANGED <<engine_current, batch>>

\* voice_manager.delete_voice(voice_id)
DeleteVoice(voice_id) ==
    /\ call = None
    /\ StoreStep(delete_voice(voice_presets, current_voice,
                              current_parameters, voice_id),
                 [op |-> "delete_voice", voice_id |-> voice_id])
    /\ UNCHANGED <<engine_current, batch>>

\* voice_manager.reset_voice_parameters()
ResetVoiceParameters ==
    /\ call = None
    /\ StoreStep(reset_voice_parameters(voice_presets, current_voice,
                                        current_parameters),
                 [op |-> "reset_voice_parameters", voice_id |-> current_voice])
    /\ UNCHANGED <<engine_current, batch>>

NextStore ==
    \/ \E voice_id \in StoreIds : SetVoice(voice_id)
    \/ \E voice_id \in {"mine", "deep"}, base_voice \in {NoVoice, "loud"},
         parameters \in {EmptyDict, [speed |-> IntValue(999)]} :
          CreateCustomVoice(voice_id, "Mine", base_voice, parameters)
    \/ \E source_voice_id \in {"classic_robot", "nope"},
         new_voice_id \in {"mine", "deep"} :
          CloneVoice(source_voice_id, new_voice_id, "Copy")
    \/ \E voice_id \in StoreIds : DeleteVoice(voice_id)
    \/ ResetVoiceParameters
    \/ ReturnCall

SpecStore == InitStore /\ [][NextStore]_vars

\* ------------------------- VoiceManager: the parameters of the current voice

\* set_voice, update_parameter and reset_voice_parameters in any order, over
\* the tables of InitStore.  The values cover both sides of the ranges, both
\* types, and a parameter the rules do not know.
NextParameters ==
    \/ \E voice_id \in {"classic_robot", "deep", "", "nope"} :
          SetVoice(voice_id)
    \/ \E value \in {79, 250} : UpdateParameter("speed", IntValue(value))
    \/ \E value \in {60, 100} : UpdateParameter("pitch", IntValue(value))
    \/ UpdateParameter("amplitude", IntValue(-1))
    \/ UpdateParameter("gap", IntValue(101))
    \/ \E str \in {"", "en-us"} :
          UpdateParameter("espeak_voice", StrValue(str))
    \/ UpdateParameter("variant", IntValue(5))
    \/ UpdateParameter("variant", StrValue("f2"))
    \/ UpdateParameter("volume", IntValue(7))
    \/ ResetVoiceParameters
    \/ ReturnCall

SpecParameters == InitStore /\ [][NextParameters]_vars

\* ------------------------------------- TTSEngine: the parameter setters

\* utils.clamp (utils.py:85-87): max(min_val, min(value, max_val))
clamp(value, min_val, max_val) ==
    LET least == IF value < max_val THEN value ELSE max_val
    IN  IF min_val > least THEN min_val ELSE least

\* TTSEngine.set_speed, set_pitch, set_amplitude, set_gap
\* (tts_engine.py:220-242): the engine's own field takes the clamped value,
\* which is then handed to voice_manager.update_parameter; what that
\* returns is dropped.
EngineSet(op, parameter, value, min_val, max_val) ==
    /\ LET clamped == clamp(value, min_val, max_val)
           c == update_parameter(current_voice, current_parameters,
                                 parameter, IntValue(clamped))
       IN  /\ engine_current' = With(engine_current, parameter, clamped)
           /\ current_parameters' = c.current_parameters
           /\ call' = [op |-> op, value |-> value, out |-> Returned(None),
                       old_voice |-> current_voice,
                       old_parameters |-> current_parameters]
    /\ UNCHANGED <<PYDUB_AVAILABLE, SCIPY_AVAILABLE, effects_params, pc, via,
                   audio_data, audio, log, result, engine_result, ret>>
    /\ UNCHANGED <<config, espeak_method, synthesis_stats, synth, main,
                   voice_presets, current_voice>>

\* engine.set_speed(speed)
SetSpeed(speed) ==
    /\ call = None
    /\ EngineSet("set_speed", "speed", speed, 80, 300)
    /\ UNCHANGED batch

\* engine.set_pitch(pitch)
SetPitch(pitch) ==
    /\ call = None
    /\ EngineSet("set_pitch", "pitch", pitch, 0, 99)
    /\ UNCHANGED batch

\* engine.set_amplitude(amplitude)
SetAmplitude(amplitude) ==
    /\ call = None
    /\ EngineSet("set_amplitude", "amplitude", amplitude, 0, 200)
    /\ UNCHANGED batch

\* engine.set_gap(gap)
SetGap(gap) ==
    /\ call = None
    /\ EngineSet("set_gap", "gap", gap, 0, 100)
    /\ UNCHANGED batch

\* The voice manager's methods that choose or add a voice and the engine's
\* setters, in any order, over the tables of InitStore; the setters get
\* integers below, inside and above their ranges.
NextTuning ==
    \/ \E voice_id \in {"deep", "loud", "mine", "nope"} : SetVoice(voice_id)
    \/ \E base_voice \in {NoVoice, "loud"},
         parameters \in {EmptyDict, [speed |-> IntValue(999)]} :
          CreateCustomVoice("mine", "Mine", base_voice, parameters)
    \/ \E source_voice_id \in {"loud", "nope"} :
          CloneVoice(source_voice_id, "mine", "Copy")
    \/ ResetVoiceParameters
    \/ \E speed \in {-5, 200, 1000} : SetSpeed(speed)
    \/ \E pitch \in {-1, 100} : SetPitch(pitch)
    \/ SetAmplitude(201)
    \/ SetGap(-1)
    \/ ReturnCall

SpecTuning == InitStore /\ [][NextTuning]_vars

\* ------------------------------------------- TTSEngine.batch_synthesize

\* Texts handed to one call of batch_synthesize.
MaxBatch == 2

BatchTexts == {t \in Texts : t.text \in {"   ", "Hi"}}

BatchLists ==
    UNION {[1..n -> BatchTexts] : n \in 0..MaxBatch}

\* f"{n:03d}": the decimal digits of n, filled with zeros to three places.
RECURSIVE Digits(_)
Digits(n) == IF n < 10 THEN <<n>> ELSE Append(Digits(n \div 10), n % 10)

ZeroFilled(n) ==
    LET digits == Digits(n)
    IN  [k \in 1..(3 - Len(digits)) |-> 0] \o digits

\* f"synthesis_{i+1:03d}.{format}" (line 289), for the 1-based position.
FileName(position, format) ==
    [stem |-> "synthesis_", number |-> ZeroFilled(position),
     suffix |-> format]

\* TTSEngine.synthesize_to_file (262-279), after synthesize handed back
\* data.  Lines 267-268: no audio, False.  Lines 271-272: the effects, when
\* asked for; they hand back WAV bytes, or the bytes they got when the
\* processor gave nothing (252-260), and an exception of theirs is caught
\* at line 277: False.  Line 275: what save_audio returns.
synthesize_to_file(data, format, apply_effects, effects_ok, pydub, ffmpeg, written) ==
    IF data = None THEN FALSE
    ELSE IF apply_effects /\ ~effects_ok THEN FALSE
    ELSE save_audio(data, format, pydub, ffmpeg, written)

InitBatch ==
    /\ PYDUB_AVAILABLE \in BOOLEAN
    /\ SCIPY_AVAILABLE = TRUE
    /\ effects_params = FallbackEffects
    /\ AtRest
    /\ ret = None
    /\ config = ConfigWith(effects_params)
    /\ engine_current = EngineCurrent(config.synthesis)
    /\ batch = None
    /\ call = None
    /\ espeak_method \in {"python", "subprocess"}
    /\ synthesis_stats = ZeroStats
    /\ synth = None
    /\ main = None
    /\ VoiceAtRest

\* What a step of batch_synthesize leaves alone.
BatchFrame ==
    /\ UNCHANGED <<PYDUB_AVAILABLE, SCIPY_AVAILABLE, effects_params, pc, via,
                   audio_data, audio, log, result, engine_result, ret>>
    /\ UNCHANGED <<config, call, espeak_method, synth, main, voice_presets,
                   current_voice, current_parameters, engine_current>>

\* engine.batch_synthesize(texts, output_dir, format, apply_effects), lines
\* 283-284: results = {}.
BatchStart(texts, format, apply_effects) ==
    /\ batch = None
    /\ batch' = [pc |-> "mkdir", texts |-> texts, format |-> format,
                 apply_effects |-> apply_effects, i |-> 0,
                 results |-> EmptyDict, processed |-> <<>>]
    /\ UNCHANGED synthesis_stats
    /\ BatchFrame

\* Line 285: output_path.mkdir(parents=True, exist_ok=True), outside every
\* try block: when the directory cannot be made (a file of that name, no
\* permission) the exception leaves batch_synthesize.
BatchMkdir(made) ==
    /\ batch # None
    /\ batch.pc = "mkdir"
    /\ batch' = IF made THEN [batch EXCEPT !.pc = "loop"]
                ELSE [batch EXCEPT !.pc = "raised"]
    /\ UNCHANGED synthesis_stats
    /\ BatchFrame

\* Lines 287-302, one turn of the loop: synthesize_to_file for texts[i],
\* with synthesize (108-140) inside it: an empty or blank text gives None
\* at once; else the engine is called once and the statistics are updated.
\* The result is stored under the file name of the position.
BatchText(need, status, output, effects_ok, ffmpeg, written) ==
    /\ batch # None
    /\ batch.pc = "loop"
    /\ batch.i < Len(batch.texts)
    /\ LET position == batch.i + 1
           text == batch.texts[position]
           c == EngineCall(espeak_method, need, status, output)
           data == IF text.blank THEN None ELSE c.audio_data
           success == synthesize_to_file(data, batch.format,
                                         batch.apply_effects, effects_ok,
                                         PYDUB_AVAILABLE, ffmpeg, written)
       IN  /\ synthesis_stats' =
                 IF text.blank THEN synthesis_stats
                 ELSE update_stats(synthesis_stats, c.elapsed, text.length,
                                   engine_current.speed)
           /\ batch' = [batch EXCEPT
                           !.i = position,
                           !.results = With(@, FileName(position,
                                                        batch.format),
                                            success),
                           !.processed = Append(@, success)]
    /\ BatchFrame

\* Line 304: return results.
BatchReturn ==
    /\ batch # None
    /\ batch.pc = "loop"
    /\ batch.i = Len(batch.texts)
    /\ batch' = [batch EXCEPT !.pc = "returned"]
    /\ UNCHANGED synthesis_stats
    /\ BatchFrame

NextBatch ==
    \/ \E texts \in BatchLists, format \in {"wav", "mp3"},
         apply_effects \in BOOLEAN : BatchStart(texts, format, apply_effects)
    \/ \E made \in BOOLEAN : BatchMkdir(made)
    \/ \E need \in EngineNeeds, status \in {"ok", "failed"},
         output \in EngineOutputs, effects_ok \in BOOLEAN,
         ffmpeg \in BOOLEAN, written \in BOOLEAN :
          BatchText(need, status, output, effects_ok, ffmpeg, written)
    \/ BatchReturn

SpecBatch == InitBatch /\ [][NextBatch]_vars

\* ------------------------------------------------------------------ claims

StageIndex(stage) ==
    IF stage = "filter" THEN 1 ELSE IF stage = "harmonic" THEN 2 ELSE 3

\* The switch of a stage, as lines 150, 155 and 159 test it.
SwitchOn(stage) ==
    IF stage = "filter" THEN effects_params.frequency_filter.enable
    ELSE IF stage = "harmonic"
    THEN effects_params.harmonic_enhancement # FactorDen
    ELSE effects_params.mechanical_artifacts

Stages == {"filter", "harmonic", "artifacts"}

Ran(stage) == \E i \in 1..Len(log) : log[i].stage = stage

\* The run got past its entry: pydub is there and the argument decoded.
Entered == PYDUB_AVAILABLE /\ audio_data # None
           /\ audio_data.kind \in {"segment", "wav"}

RunOver == pc \in {"returned", "engine_returned"}

\* C1: in one run the stage calls are in the order filter, harmonic
\* enhancement, mechanical artifacts, each at most once and only with its
\* switch on; the first call is given the decoded argument and every later
\* call the buffer the call before it returned; a run that is over has
\* called every stage whose switch is on and returned the last buffer.
C1_StageOrder ==
    /\ \A i \in 1..Len(log) : SwitchOn(log[i].stage)
    /\ \A i \in 1..Len(log) : \A j \in 1..Len(log) :
          i < j => StageIndex(log[i].stage) < StageIndex(log[j].stage)
    /\ \A i \in 1..Len(log) :
          log[i].inp = IF i = 1 THEN audio_data.buf ELSE log[i - 1].out
    /\ (RunOver /\ Entered) =>
          /\ \A st \in Stages : SwitchOn(st) => Ran(st)
          /\ result = IF Len(log) = 0 THEN audio_data.buf
                      ELSE log[Len(log)].out

\* A run in which all three stages ran, and each changed the buffer.
C1_Witness ==
    /\ pc = "returned"
    /\ Len(log) = 3
    /\ \A i \in 1..3 : log[i].ok /\ log[i].out # log[i].inp

\* C2 (as claimed): a stage call that fails hands on the buffer it was
\* given, the later stages with their switch on still run, and the run
\* returns a buffer.
C2_FailureCarriesInput ==
    /\ \A i \in 1..Len(log) : ~log[i].ok => log[i].out = log[i].inp
    /\ (RunOver /\ Entered) =>
          /\ \A st \in Stages : SwitchOn(st) => Ran(st)
          /\ result # None

\* C3 (as claimed): TTSEngine.apply_robotic_effects never returns None, and
\* when every stage call of the run failed (or pydub is missing) the bytes it
\* returns hold the buffer of the bytes it was given.
C3_AllFailedReturnsInput ==
    pc = "engine_returned" =>
        /\ engine_result # None
        /\ (audio_data.kind = "wav" /\ Len(audio_data.buf.samples) > 0
              /\ (~PYDUB_AVAILABLE \/ \A i \in 1..Len(log) : ~log[i].ok))
            => (engine_result.kind = "wav"
                  /\ engine_result.buf = audio_data.buf)

\* C4: with the filter disabled, harmonic_enhancement 1.0 and
\* mechanical_artifacts false, a run calls no stage and returns the buffer
\* it was given: same samples, frame rate, channels and sample width.
C4_AllDisabledIdentity ==
    (RunOver /\ Entered /\ \A st \in Stages : ~SwitchOn(st)) =>
        /\ log = <<>>
        /\ result = audio_data.buf

C4_Witness ==
    /\ pc = "returned"
    /\ Entered
    /\ \A st \in Stages : ~SwitchOn(st)
    /\ Len(audio_data.buf.samples) > 0
    /\ result = audio_data.buf

FilterCalls == {i \in 1..Len(log) : log[i].stage = "filter"}

\* C5 (as claimed): a filter stage call in which a filtering step raised
\* returns the buffer it was given.
C5_FilterAllOrNothing ==
    \A i \in FilterCalls : ~log[i].ok => log[i].out = log[i].inp

\* C6: with low_cutoff 0 and high_cutoff >= 20000 the filter stage calls
\* neither filter and returns the buffer it was given.
C6_OpenBandIsNoOp ==
    \A i \in FilterCalls :
        (effects_params.frequency_filter.low_cutoff = 0
           /\ effects_params.frequency_filter.high_cutoff >= 20000)
        => /\ log[i].hp = "skipped"
           /\ log[i].lp = "skipped"
           /\ log[i].ok
           /\ log[i].out = log[i].inp

C6_Witness ==
    \E i \in FilterCalls :
        /\ effects_params.frequency_filter.low_cutoff = 0
        /\ effects_params.frequency_filter.high_cutoff >= 20000
        /\ Len(log[i].inp.samples) > 0
        /\ log[i].out = log[i].inp

Called(step) == step \in {"applied", "raised"}

\* C7 (as claimed): the high pass is called exactly when low_cutoff > 0 and,
\* unless the high pass raised, the low pass exactly when high_cutoff is
\* below half the frame rate of the buffer.
C7_LowPassBelowNyquist ==
    \A i \in FilterCalls :
        /\ Called(log[i].hp) <=> effects_params.frequency_filter.low_cutoff > 0
        /\ log[i].hp # "raised" =>
              (Called(log[i].lp) <=>
                  2 * effects_params.frequency_filter.high_cutoff
                      < log[i].inp.frame_rate)

\* C7 (amended): the high pass is called exactly when low_cutoff > 0 and,
\* unless the high pass raised, the low pass exactly when high_cutoff is
\* below 20000 Hz, whatever the frame rate; after a high pass that raised
\* the low pass is not reached.
C7_LowPassBelow20000 ==
    \A i \in FilterCalls :
        /\ Called(log[i].hp) <=> effects_params.frequency_filter.low_cutoff > 0
        /\ log[i].hp # "raised" =>
              (Called(log[i].lp) <=>
                  effects_params.frequency_filter.high_cutoff < 20000)
        /\ log[i].hp = "raised" => log[i].lp = "not_reached"

\* 15000 Hz on a 22050 Hz buffer (Nyquist 11025 Hz): the low pass is applied.
C7_Witness ==
    \E i \in FilterCalls :
        /\ log[i].inp.frame_rate = 22050
        /\ effects_params.frequency_filter.high_cutoff = 15000
        /\ log[i].lp = "applied"
        /\ log[i].out # log[i].inp

Called8 == ret # None /\ Len(ret.samples) > 0

\* C8 (as claimed): max_val is the largest absolute sample value of the
\* channel, and the channel comes back unchanged exactly when all its
\* samples are zero.
C8_SilenceIffAllZero ==
    Called8 =>
        /\ MaxAbs(ret.samples, ret.w) = Peak(ret.samples)
        /\ (ret.out = ret.samples) <=> (Peak(ret.samples) = 0)

\* C9 (as claimed): at factor 1.0 the peak of the output is the peak of the
\* input, up to rounding (two units are allowed here).
C9_UnityKeepsPeak ==
    (Called8 /\ ret.factor = FactorDen /\ Peak(ret.samples) > 0) =>
        Abs(Peak(ret.out) - Peak(ret.samples)) <= 2

\* C9 (amended): at factor 1.0 the stage attenuates.  The peak of the output
\* never exceeds that of the input; when max_val > 0 it is at most
\* 0.8 * max_val; and when moreover no sample is the minimum value of the
\* width it is trunc(0.8 * tanh(1) * peak), between 0.60 * peak - 1 and
\* 0.61 * peak.
C9_UnityAttenuates ==
    (Called8 /\ ret.factor = FactorDen) =>
        LET M == MaxAbs(ret.samples, ret.w)
            P == Peak(ret.out)
        IN  /\ P <= Peak(ret.samples)
            /\ M > 0 => 5 * P <= 4 * M
            /\ (M > 0 /\ \A i \in 1..Len(ret.samples) :
                            ret.samples[i] # MinVal(ret.w))
                => /\ 100 * P <= 61 * M
                   /\ 100 * (P + 1) > 60 * M

C9_Witness ==
    /\ Called8
    /\ ret.factor = FactorDen
    /\ Peak(ret.samples) = 100
    /\ Peak(ret.out) = 60

\* C10: for every factor > 0 each output sample is within the range of the
\* sample width, is zero where the input sample is zero and never has the
\* opposite sign of its input sample; the array keeps its length.
C10_CastInRange ==
    ret # None =>
        /\ Len(ret.out) = Len(ret.samples)
        /\ \A i \in 1..Len(ret.samples) :
              /\ MinVal(ret.w) <= ret.out[i] /\ ret.out[i] <= MaxVal(ret.w)
              /\ ret.samples[i] = 0 => ret.out[i] = 0
              /\ ret.samples[i] > 0 => ret.out[i] >= 0
              /\ ret.samples[i] < 0 => ret.out[i] <= 0

\* A full-scale channel through the strongest factor: both samples changed.
C10_Witness ==
    /\ ret # None
    /\ ret.factor = 20
    /\ ret.samples = <<32767, -20000>>
    /\ ret.out[1] > 0 /\ ret.out[1] < 32767
    /\ ret.out[2] < 0

HarmonicPair == call # None /\ call.op = "harmonic_pair"

\* C11: for a stereo buffer the output samples of a channel are those of
\* _enhance_harmonics on that channel's own samples (normalised by its own
\* peak), at the positions the channel has in the input; two buffers that
\* agree on one channel give the same output in that channel whatever the
\* other channel holds; length and format are kept.
C11_ChannelsIndependent ==
    HarmonicPair =>
        /\ Channel(call.outa.samples, 2, call.keep)
              = Channel(call.outb.samples, 2, call.keep)
        /\ \A j \in {0, 1} :
              Channel(call.outa.samples, 2, j)
                 = enhance_harmonics(Channel(call.a.samples, 2, j),
                                     call.factor, call.a.sample_width)
        /\ call.outa = Spawn(call.a, call.outa.samples)
        /\ Len(call.outa.samples) = Len(call.a.samples)

\* Two buffers whose other channels have different peaks and come out
\* different, while the shared channel is changed in the same way.
C11_Witness ==
    /\ HarmonicPair
    /\ LET k == call.keep
           o == 1 - call.keep
       IN  /\ Peak(Channel(call.a.samples, 2, k)) = 100
           /\ Peak(Channel(call.a.samples, 2, o)) = 32767
           /\ Peak(Channel(call.b.samples, 2, o)) = 0
           /\ Channel(call.outa.samples, 2, o)
                 # Channel(call.outb.samples, 2, o)
           /\ Channel(call.outa.samples, 2, k)
                 # Channel(call.a.samples, 2, k)

ArtifactCalls == {i \in 1..Len(log) : log[i].stage = "artifacts"}

\* The requantised copy of a buffer, attenuated by 20 dB, as the artifact
\* stage mixes it in.
AttenuatedCopy(b) ==
    GainMinus20(set_sample_width(set_sample_width(b, 1), b.sample_width))

\* C12: every sample the artifact stage returns lies within the range of
\* the sample width of the buffer, and the stage keeps the sample width:
\* the mix of the original with its requantised, attenuated copy saturates,
\* a sum beyond an end of the range is held at that end and never wraps.
C12_ArtifactInRange ==
    \A i \in ArtifactCalls :
        /\ log[i].out.sample_width = log[i].inp.sample_width
        /\ \A k \in 1..Len(log[i].out.samples) :
              /\ MinVal(log[i].out.sample_width) <= log[i].out.samples[k]
              /\ log[i].out.samples[k] <= MaxVal(log[i].out.sample_width)
        /\ log[i].ok =>
              \A k \in 1..Len(log[i].out.samples) :
                 k <= Len(log[i].inp.samples) =>
                    LET sum == log[i].inp.samples[k]
                                 + AttenuatedCopy(log[i].inp).samples[k]
                    IN  /\ sum > MaxVal(log[i].inp.sample_width)
                           => log[i].out.samples[k]
                                = MaxVal(log[i].inp.sample_width)
                        /\ sum < MinVal(log[i].inp.sample_width)
                           => log[i].out.samples[k]
                                = MinVal(log[i].inp.sample_width)

\* A 16-bit buffer in which the sum of a sample and its attenuated copy
\* passes the maximum and is held there, next to a sample that the mix
\* changed without saturating.
C12_Witness ==
    \E i \in ArtifactCalls :
        /\ log[i].ok
        /\ log[i].inp.sample_width = 2
        /\ Len(log[i].out.samples) = Len(log[i].inp.samples)
        /\ \E k \in 1..Len(log[i].out.samples) :
              /\ log[i].inp.samples[k] = MaxVal(2)
              /\ log[i].inp.samples[k]
                    + GainMinus20(set_sample_width(
                          set_sample_width(log[i].inp, 1), 2)).samples[k]
                    > MaxVal(2)
              /\ log[i].out.samples[k] = MaxVal(2)
        /\ \E k \in 1..Len(log[i].out.samples) :
              /\ log[i].out.samples[k] # log[i].inp.samples[k]
              /\ Abs(log[i].out.samples[k]) < MaxVal(2)

Normalized == call # None /\ call.op = "normalize"

NonSilent(b) == \E i \in 1..Len(b.samples) : b.samples[i] # 0

\* The level of the largest absolute sample of b is the target level to
\* within 0.1 dB (a ratio between 1000/1012 and 1012/1000) or one unit of
\* the sample scale.
PeakAtTarget(b, target) ==
    LET full == target.num * MaxAmp(b.sample_width)
        p    == MaxOf(b) * target.den
        d    == IF p > full THEN p - full ELSE full - p
    IN  1000 * d <= 12 * full + 1000 * target.den

\* C13 (as claimed): for a buffer that is not silent the peak level of the
\* buffer normalize_audio returns is the target level.
C13_PeakEqualsTarget ==
    (Normalized /\ NonSilent(call.audio)) =>
        PeakAtTarget(call.out, call.target)

\* The levels of x and y (amplitudes on one scale) differ by at most
\* 0.1 dB, a ratio of 1.012.
Within01dB(x, y) == 1000 * x <= 1012 * y /\ 1000 * y <= 1012 * x

\* C14 (as claimed): normalising the result of normalize_audio again to the
\* same target applies a gain of about zero (the level that is measured is
\* within 0.1 dB of the target) and leaves the peak level within 0.1 dB.
C14_NormalizeIdempotent ==
    (Normalized /\ call.again # None /\ NonSilent(call.audio)) =>
        /\ Within01dB(Rms(call.out) * call.target.den,
                      call.target.num * MaxAmp(call.out.sample_width))
        /\ Within01dB(MaxOf(call.again), MaxOf(call.out))

Converted == call # None /\ call.op = "convert"

\* C15: convert_format returns None, and so never the bytes it was given,
\* when pydub is missing, when the source format is neither wav nor mp3,
\* when the bytes do not decode as that format, or when encoding to the
\* target format fails; what it returns otherwise is an encoding in the
\* target format.
C15_ConvertFailsClosed ==
    Converted =>
        /\ (~PYDUB_AVAILABLE
              \/ Lower(call.input_format) \notin {"wav", "mp3"}
              \/ ~Decodes(call.audio_data, Lower(call.input_format),
                          call.ffmpeg)
              \/ ~Encodes(call.output_format, call.ffmpeg))
            => call.out = None
        /\ call.out # None => call.out.kind = call.output_format

\* A call that is given WAV bytes and a target format the encoder program
\* does not know: the bytes decode, the encoding fails, and None comes
\* back.
C15_Witness ==
    /\ Converted
    /\ PYDUB_AVAILABLE
    /\ call.out = None
    /\ call.audio_data.kind = "wav"
    /\ call.input_format = "wav"
    /\ call.decoded
    /\ ~call.encoded
    /\ call.output_format = "xyz"
    /\ call.ffmpeg

\* C16 (as claimed): every run of apply_robotic_effects sees cutoffs that
\* are not negative, low_cutoff < high_cutoff and harmonic_enhancement > 0,
\* and the synthesis speed of the configuration is within 80..300.
C16_EffectsConfigValid ==
    /\ config.synthesis.speed >= 80 /\ config.synthesis.speed <= 300
    /\ pc \in {"filter", "harmonic", "artifacts"} =>
          /\ effects_params.frequency_filter.low_cutoff >= 0
          /\ effects_params.frequency_filter.high_cutoff >= 0
          /\ effects_params.frequency_filter.low_cutoff
                < effects_params.frequency_filter.high_cutoff
          /\ effects_params.harmonic_enhancement > 0

\* C17: from the entry of a run to its return no step changes the argument
\* of the run (the sample data and the format of the caller's buffer), and
\* no step of a run changes the effects parameters of the processor.
C17_InputUntouched ==
    [][/\ (pc # "idle" /\ pc' # "idle") => audio_data' = audio_data
       /\ effects_params' = effects_params]_vars

\* A run that is over, in which one stage failed and another changed the
\* buffer: what is returned differs from the argument, which is still there.
C17_Witness ==
    /\ pc = "returned"
    /\ Entered
    /\ audio_data.kind = "segment"
    /\ Len(audio_data.buf.samples) > 0
    /\ result # None
    /\ result # audio_data.buf
    /\ \E i \in 1..Len(log) : ~log[i].ok
    /\ \E i \in 1..Len(log) : log[i].ok /\ log[i].out # log[i].inp

\* C18: when the engine needs more than the 30 seconds of the synthesis
\* bound, the synthesize call that has returned handed back no audio, and
\* it called the engine exactly once.
C18_TimeoutReturnsNone ==
    (synth # None /\ synth.pc = "returned" /\ synth.need > SynthesisTimeout)
        => (synth.result = None /\ synth.invocations = 1)

\* A call of play_audio that cannot play: no playback backend, bytes that
\* are no WAV file, a value of another type, or a player that fails.
CannotPlay(data, player_ok) ==
    \/ ~PYDUB_AVAILABLE
    \/ data.kind \notin {"wav", "segment"}
    \/ ~player_ok

\* C19: play_audio never raises and returns False exactly when the
\* playback failed; in the main run playback is attempted only after the
\* audio was saved, it never raises there, and a run whose playback failed
\* still ends as a completed run.
C19_PlaybackFailureNotFatal ==
    /\ (call # None /\ call.op = "play")
          => /\ ~call.out.raised
             /\ call.out.value = ~CannotPlay(call.audio_data, call.player_ok)
    /\ main # None
          => /\ main.played # "no" => main.saved
             /\ main.played # "raised"
             /\ (main.pc = "exited" /\ main.played = "failed")
                    => main.outcome = "complete"

\* C19 witness: a main run that saved its audio, whose playback failed, and
\* that ended as a completed run.
C19_Witness ==
    /\ main # None
    /\ main.pc = "exited"
    /\ main.args.play
    /\ main.saved
    /\ main.played = "failed"
    /\ main.outcome = "complete"

\* C20: set_voice(v) returns True exactly when v is the id of a loaded
\* preset; on True the current voice is v and the current parameters are
\* that preset without '_source'; on False the current voice and the
\* current parameters are what they were before the call.
C20_SetVoiceAllOrNothing ==
    (call # None /\ call.op = "set_voice") =>
        /\ ~call.out.raised
        /\ call.out.value = (call.voice_id \in DOMAIN voice_presets)
        /\ call.out.value
              => /\ current_voice = call.voice_id
                 /\ current_parameters
                      = WithoutSource(voice_presets[call.voice_id])
        /\ ~call.out.value
              => /\ current_voice = call.old_voice
                 /\ current_parameters = call.old_parameters

Validated == call # None /\ call.op = "validate"

\* The characters of a str of runs that are no whitespace at either end of
\* it: what is left after trimming, counted on the runs themselves.
LeadingBlank(runs) ==
    {i \in 1..Len(runs) : \A j \in 1..i : runs[j][1] \in Whitespace}
TrailingBlank(runs) ==
    {i \in 1..Len(runs) : \A j \in i..Len(runs) : runs[j][1] \in Whitespace}
Solid(runs) == (1..Len(runs)) \ (LeadingBlank(runs) \cup TrailingBlank(runs))

RECURSIVE SumCounts(_, _)
SumCounts(runs, idx) ==
    IF idx = {} THEN 0
    ELSE LET i == CHOOSE j \in idx : TRUE
         IN  runs[i][2] + SumCounts(runs, idx \ {i})

\* C21: validate_text_input returns True for every str that, trimmed, is
\* not empty, has at most 10000 characters and holds only word characters,
\* whitespace and the listed punctuation; it returns False for a value that
\* is no str, for an empty or whitespace-only text and for a text that,
\* trimmed, is longer than 10000 characters.
C21_ValidateTextInput ==
    Validated =>
        LET runs == call.text.runs
            kept == Solid(runs)
        IN  /\ (/\ call.text.kind = "str"
                /\ kept # {}
                /\ SumCounts(runs, kept) <= MaxTextLength
                /\ \A i \in kept : Allowed(runs[i][1]))
                  => call.out = TRUE
            /\ (\/ call.text.kind # "str"
                \/ kept = {}
                \/ SumCounts(runs, kept) > MaxTextLength)
                  => call.out = FALSE

\* C21 witness: a text of exactly 10000 characters between whitespace is
\* accepted, the whole str being longer than 10000 characters.
C21_Witness ==
    /\ Validated
    /\ call.out = TRUE
    /\ call.text.kind = "str"
    /\ Len(call.text.runs) >= 2
    /\ call.text.runs[1][1] \in Whitespace
    /\ SumCounts(call.text.runs, Solid(call.text.runs)) = MaxTextLength
    /\ SumCounts(call.text.runs, 1..Len(call.text.runs)) > MaxTextLength

NormalizedText == call # None /\ call.op = "normalize_text"

\* The words of a text: its maximal runs of characters that are no
\* whitespace, in order.
RECURSIVE Words(_)
Words(text) ==
    LET t == strip(text) IN
    IF t = <<>> THEN <<>>
    ELSE LET blanks == {i \in 1..Len(t) : t[i] \in Whitespace}
         IN  IF blanks = {} THEN <<t>>
             ELSE LET b == CHOOSE i \in blanks : \A j \in blanks : i <= j
                  IN  <<SubSeq(t, 1, b - 1)>>
                          \o Words(SubSeq(t, b + 1, Len(t)))

\* The words joined by single spaces.
RECURSIVE Joined(_)
Joined(words) ==
    IF words = <<>> THEN <<>>
    ELSE IF Len(words) = 1 THEN words[1]
    ELSE words[1] \o <<" ">> \o Joined(Tail(words))

Within(part, whole) ==
    \E i \in 0..(Len(whole) - Len(part)) :
        SubSeq(whole, i + 1, i + Len(part)) = part

\* No whitespace at either end, and no whitespace but single spaces.
SingleSpaced(text) ==
    /\ text # <<>> => (/\ text[1] \notin Whitespace
                       /\ text[Len(text)] \notin Whitespace)
    /\ \A i \in 1..Len(text) : text[i] \in Whitespace => text[i] = " "
    /\ \A i \in 1..(Len(text) - 1) :
          ~(text[i] \in Whitespace /\ text[i + 1] \in Whitespace)

\* The characters of a text that are no whitespace, in order.
Ink(text) == SelectSeq(text, LAMBDA ch : ch \notin Whitespace)

Deleted == call # None /\ call.op = "delete_voice"

\* C23: delete_voice removes only presets whose source is 'custom' or
\* 'user': for a preset loaded as a default or fallback preset, and for an
\* unknown id, it returns False and leaves the preset table and the current
\* voice unchanged, after any sequence of create, clone and delete
\* operations; whatever it returns, no other preset leaves the table or
\* changes.
C23_DeleteOnlyOwnVoices ==
    Deleted =>
        LET voice_id == call.args.voice_id
            old == call.old_presets
            own == /\ voice_id \in DOMAIN old
                   /\ old[voice_id]["_source"] \in {"custom", "user"}
        IN  /\ ~own => /\ call.out = Returned(FALSE)
                       /\ voice_presets = old
                       /\ current_voice = call.old_voice
                       /\ current_parameters = call.old_parameters
            /\ (DOMAIN old) \ (DOMAIN voice_presets) \subseteq {voice_id}
            /\ \A v \in (DOMAIN old) \ {voice_id} :
                  /\ v \in DOMAIN voice_presets
                  /\ voice_presets[v] = old[v]
            /\ \A v \in DOMAIN old :
                  old[v]["_source"] \in {"default", "fallback"}
                     => v \in DOMAIN voice_presets

\* C23 witness: with a created voice in the table and a user preset
\* already deleted, delete_voice of the current voice, a default preset, is
\* refused.
C23_Witness ==
    /\ Deleted
    /\ call.args.voice_id = "deep"
    /\ call.old_voice = "deep"
    /\ call.old_presets["deep"]["_source"] = "default"
    /\ "mine" \in DOMAIN call.old_presets
    /\ call.old_presets["mine"]["_source"] = "custom"
    /\ "classic_robot" \notin DOMAIN call.old_presets
    /\ call.out = Returned(FALSE)


\* C27: in every reachable state of the voice manager the current voice is
\* None or the id of a preset in the table, also after delete_voice removed
\* the preset that was the current voice, and reset_voice_parameters does
\* not fail.
C27_CurrentVoiceListed ==
    /\ current_voice = NoVoice \/ current_voice \in DOMAIN voice_presets
    /\ (call # None /\ call.op = "reset_voice_parameters")
          => ~call.out.raised


ParameterUpdated == call # None /\ call.op = "update_parameter"

KnownParameters ==
    {"speed", "pitch", "amplitude", "gap", "espeak_voice", "variant"}

\* C30: update_parameter is all-or-nothing: with no current voice, or with
\* a value that fails the validation of a known parameter, it returns False
\* and the current parameters are unchanged; when it returns True exactly
\* the named parameter has the new value and every other current parameter
\* is unchanged.
C30_UpdateAllOrNothing ==
    ParameterUpdated =>
        LET refused == \/ call.old_voice = NoVoice
                       \/ /\ call.parameter \in KnownParameters
                          /\ ~validate_parameter(call.parameter, call.value)
        IN  /\ ~call.out.raised
            /\ refused => ~call.out.value
            /\ ~call.out.value
                  => current_parameters = call.old_parameters
            /\ call.out.value
                  => /\ DOMAIN current_parameters
                          = DOMAIN call.old_parameters \cup {call.parameter}
                     /\ current_parameters[call.parameter] = call.value.v
                     /\ \A k \in (DOMAIN call.old_parameters)
                                    \ {call.parameter} :
                           current_parameters[k] = call.old_parameters[k]
            /\ current_voice = call.old_voice

\* C30 witness: with a current voice whose speed was already updated, a
\* pitch out of range is refused and the parameters stay as they were.
C30_Witness ==
    /\ ParameterUpdated
    /\ call.old_voice = "deep"
    /\ call.parameter = "pitch"
    /\ call.value = IntValue(100)
    /\ call.out = Returned(FALSE)
    /\ call.old_parameters["speed"] = 250
    /\ "volume" \in DOMAIN call.old_parameters
    /\ current_parameters = call.old_parameters


\* C25: reset_voice_parameters undoes every parameter update: after
\* set_voice(v) and any sequence of update_parameter calls it makes the
\* current parameters equal to the stored entries of preset v without
\* '_source'; and update_parameter never changes the stored preset table.
C25_ResetUndoesUpdates ==
    /\ (call # None /\ call.op = "reset_voice_parameters"
                    /\ call.old_voice # NoVoice)
          => /\ ~call.out.raised
             /\ current_voice = call.old_voice
             /\ current_parameters
                   = WithoutSource(voice_presets[call.old_voice])
    /\ ParameterUpdated => voice_presets = call.old_presets


\* What synthesize hands to the engine (tts_engine.py:121, 146-150, 172-176).
Sent == get_espeak_parameters(current_parameters)

\* C24: after any sequence of set_voice, create_custom_voice, clone_voice,
\* reset_voice_parameters and the engine's set_speed, set_pitch,
\* set_amplitude and set_gap with any integer, the parameters that
\* get_espeak_parameters hands to the engine are within their documented
\* ranges: speed 80..300, pitch 0..99, amplitude 0..200, gap 0..100.
C24_ParametersInRange ==
    Sent # EmptyDict =>
        /\ 80 <= Sent.speed /\ Sent.speed <= 300
        /\ 0 <= Sent.pitch /\ Sent.pitch <= 99
        /\ 0 <= Sent.amplitude /\ Sent.amplitude <= 200
        /\ 0 <= Sent.gap /\ Sent.gap <= 100

\* C28: the engine's own parameter state agrees with what is sent to the
\* synthesiser: after any sequence of set_speed, set_pitch, set_amplitude,
\* set_gap and set_voice, current_speed, current_pitch, current_amplitude
\* and current_gap of the engine equal the speed, pitch, amplitude and gap
\* of the voice manager's current parameters.
C28_EngineAgrees ==
    /\ engine_current.speed = Get(current_parameters, "speed", 140)
    /\ engine_current.pitch = Get(current_parameters, "pitch", 35)
    /\ engine_current.amplitude = Get(current_parameters, "amplitude", 100)
    /\ engine_current.gap = Get(current_parameters, "gap", 8)


\* C29: synthesis_stats.total_syntheses counts the synthesize calls that
\* returned audio: a call that returns no audio (empty or blank text, an
\* engine error, a non-zero exit, a timeout) leaves total_syntheses,
\* total_time and average_rtf unchanged.
C29_NoAudioNoStats ==
    [][(/\ synth' # None
        /\ synth' # synth
        /\ synth'.pc = "returned"
        /\ synth'.result = None)
          => synthesis_stats' = synthesis_stats]_vars


\* The file names of the positions 1..n.
FileNames(n, format) == {FileName(position, format) : position \in 1..n}

\* C26: batch_synthesize returns exactly one result entry per input text,
\* keyed 'synthesis_NNN.<format>' by the text's 1-based position; a text
\* whose synthesis, effects or save fails is recorded as False and every
\* later text is still processed, so the batch always terminates with as
\* many entries as texts.
C26_OneEntryPerText ==
    (batch # None /\ batch.pc \in {"returned", "raised"}) =>
        /\ batch.pc = "returned"
        /\ DOMAIN batch.results = FileNames(Len(batch.texts), batch.format)
        /\ Cardinality(DOMAIN batch.results) = Len(batch.texts)
        /\ Len(batch.processed) = Len(batch.texts)
        /\ \A position \in 1..Len(batch.texts) :
              batch.results[FileName(position, batch.format)]
                 = batch.processed[position]

=============================================================================
